---- MODULE Spec2Model ----
(***************************************************************************)
(* Verification model of the gb-emulator core: the memory bus, the opcode  *)
(* decoder, the execution engine (src/cpu.rs, src/instructions.rs) and the *)
(* VRAM tile cache (src/gpu.rs).                                           *)
(*                                                                         *)
(* A Rust panic is modelled as the machine's `panic` field leaving "none": *)
(* the state keeps whatever had been written before the panic, and no      *)
(* further operation runs on a panicked machine.                           *)
(***************************************************************************)
EXTENDS Integers, Sequences, FiniteSets, TLC

VARIABLES cpu,   \* struct CPU { registers, pc, sp, bus } plus the panic marker
          gpu,   \* struct GPU { vram, tile_set } plus the panic marker
          hist   \* the operations performed so far, the latest last: each entry
                 \* holds the operation's name, its inputs, the value it
                 \* returned and the state it started from

vars == <<cpu, gpu, hist>>

----------------------------------------------------------------------------
(* Machine integers: u8 / u16 arithmetic and bit operations.               *)

U8 == 0..255
U16 == 0..65535

RECURSIVE BitAnd(_, _)
BitAnd(x, y) ==
    IF x = 0 \/ y = 0 THEN 0
    ELSE (x % 2) * (y % 2) + 2 * BitAnd(x \div 2, y \div 2)

RECURSIVE BitOr(_, _)
BitOr(x, y) ==
    IF x = 0 THEN y
    ELSE IF y = 0 THEN x
    ELSE (IF x % 2 = 1 \/ y % 2 = 1 THEN 1 ELSE 0) + 2 * BitOr(x \div 2, y \div 2)

RECURSIVE BitXor(_, _)
BitXor(x, y) ==
    IF x = 0 THEN y
    ELSE IF y = 0 THEN x
    ELSE ((x + y) % 2) + 2 * BitXor(x \div 2, y \div 2)

RECURSIVE Pow2(_)
Pow2(k) == IF k = 0 THEN 1 ELSE 2 * Pow2(k - 1)

\* the number of bits of a type of `modulus` values
RECURSIVE BitWidth(_)
BitWidth(modulus) == IF modulus <= 1 THEN 0 ELSE 1 + BitWidth(modulus \div 2)

\* a shift by the width of the type or more overflows: a build with
\* overflow checks panics with this message, a build without them shifts
\* by the amount modulo the width
ShiftOverflow == "attempt to shift left with overflow"
ShiftOverflows(k, modulus) == k >= BitWidth(modulus)

\* x << k and x >> k on a type of `modulus` values; Shl gives the value
\* where the shift does not panic
Shl(x, k, modulus) == (x * Pow2(k % BitWidth(modulus))) % modulus
Shr(x, k) == x \div Pow2(k)

\* u16::wrapping_add / wrapping_sub / wrapping_add_signed
wrapping_add(x, y) == (x + y) % 65536
wrapping_sub(x, y) == (x - y + 65536) % 65536
wrapping_add_signed(x, y) == (x + y + 65536) % 65536

\* u8::wrapping_add / wrapping_sub
wrapping_add8(x, y) == (x + y) % 256
wrapping_sub8(x, y) == (x - y + 256) % 256

\* u8::overflowing_add / overflowing_sub: (result, did_overflow)
overflowing_add8(x, y) == [value |-> (x + y) % 256, overflow |-> x + y > 255]
overflowing_sub8(x, y) == [value |-> (x - y + 256) % 256, overflow |-> x < y]

\* u16::overflowing_add
overflowing_add(x, y) == [value |-> (x + y) % 65536, overflow |-> x + y > 65535]

\* `byte as i8`
as_i8(byte) == IF byte >= 128 THEN byte - 256 ELSE byte

----------------------------------------------------------------------------
(* Arrays.  memory: [u8; 0xFFFF] and vram: [u8; VRAM_SIZE] are held        *)
(* sparsely: an index outside the DOMAIN holds 0, and no index in the      *)
(* DOMAIN holds 0, so two arrays are equal exactly when their sparse forms *)
(* are equal.                                                              *)

Load(array, index) == IF index \in DOMAIN array THEN array[index] ELSE 0

Store(array, index, value) ==
    IF value = 0
    THEN [i \in DOMAIN array \ {index} |-> array[i]]
    ELSE [i \in DOMAIN array \cup {index} |-> IF i = index THEN value ELSE array[i]]

EmptyArray == [i \in {} |-> 0]

----------------------------------------------------------------------------
(* Registers (crate::registers).                                           *)

get_bc(registers) == registers.b * 256 + registers.c
get_de(registers) == registers.d * 256 + registers.e
get_hl(registers) == registers.h * 256 + registers.l

set_bc(registers, value) ==
    [registers EXCEPT !.b = value \div 256, !.c = value % 256]
set_de(registers, value) ==
    [registers EXCEPT !.d = value \div 256, !.e = value % 256]
set_hl(registers, value) ==
    [registers EXCEPT !.h = value \div 256, !.l = value % 256]

\* the packed flags byte: zero bit 7, subtract bit 6, half-carry bit 5, carry bit 4
flags_to_u8(f) ==
      (IF f.zero THEN 128 ELSE 0) + (IF f.subtract THEN 64 ELSE 0)
    + (IF f.half_carry THEN 32 ELSE 0) + (IF f.carry THEN 16 ELSE 0)

u8_to_flags(byte) ==
    [zero       |-> (byte \div 128) % 2 = 1,
     subtract   |-> (byte \div 64) % 2 = 1,
     half_carry |-> (byte \div 32) % 2 = 1,
     carry      |-> (byte \div 16) % 2 = 1]

get_af(registers) == registers.a * 256 + flags_to_u8(registers.f)
set_af(registers, value) ==
    [registers EXCEPT !.a = value \div 256, !.f = u8_to_flags(value % 256)]

----------------------------------------------------------------------------
(* Panics.                                                                 *)

Ok(m) == m.panic = "none"
Fault(m, message) == [m EXCEPT !.panic = message]
OutOfBounds == "index out of bounds"

\* a call's result: the machine after it and the value it returned
Ret(m, value) == [cpu |-> m, value |-> value]

----------------------------------------------------------------------------
(* MemoryBus.                                                              *)

MEM_SIZE == 65535    \* memory: [u8; 0xFFFF]

read_byte(m, address) ==
    IF address < MEM_SIZE
    THEN Ret(m, Load(m.bus.memory, address))
    ELSE Ret(Fault(m, OutOfBounds), 0)

read_word(m, address) ==
    LET least == read_byte(m, address) IN
    IF ~Ok(least.cpu) THEN least
    ELSE LET most == read_byte(least.cpu, wrapping_add(address, 1)) IN
         Ret(most.cpu, BitOr(Shl(most.value, 8, 65536), least.value))

write_byte(m, address, value) ==
    IF address < MEM_SIZE
    THEN [m EXCEPT !.bus.memory = Store(@, address, value)]
    ELSE Fault(m, OutOfBounds)

write_word(m, address, value) ==
    LET least_significant_byte == BitAnd(value, 255)
        most_significant_byte  == Shr(BitAnd(value, 65280), 8)
        m1 == write_byte(m, address, least_significant_byte)
    IN  IF ~Ok(m1) THEN m1
        ELSE write_byte(m1, wrapping_add(address, 1), most_significant_byte)

----------------------------------------------------------------------------
(* Instructions and the decoder (src/instructions.rs).                     *)

\* Instruction::TAG(arg); arg is "none" for the forms without operand
Instr(tag, arg) == [tag |-> tag, arg |-> arg]

\* LoadType::Byte(target, source)
Byte(target, source) == [load_type |-> "Byte", target |-> target, source |-> source]
\* LoadType::Word(target, source)
Word(target, source) == [load_type |-> "Word", target |-> target, source |-> source]
\* LoadType::AddressIncDec(target, source, mode)
AddressIncDec(target, source, mode) ==
    [load_type |-> "AddressIncDec", target |-> target, source |-> source, mode |-> mode]

\* what a call of the decoder produces: Some(instruction), None, or a panic
Some(instruction) == [kind |-> "Some", instruction |-> instruction]
None == [kind |-> "None"]
Panicking(message) == [kind |-> "panic", message |-> message]

from_byte_standard(byte) ==
    CASE byte = 6 -> Some(Instr("LD", Byte("B", "N8")))   \* 0x06
      [] byte = 64 -> Some(Instr("LD", Byte("B", "B")))   \* 0x40
      [] byte = 65 -> Some(Instr("LD", Byte("B", "C")))   \* 0x41
      [] byte = 66 -> Some(Instr("LD", Byte("B", "D")))   \* 0x42
      [] byte = 67 -> Some(Instr("LD", Byte("B", "E")))   \* 0x43
      [] byte = 68 -> Some(Instr("LD", Byte("B", "H")))   \* 0x44
      [] byte = 69 -> Some(Instr("LD", Byte("B", "L")))   \* 0x45
      [] byte = 70 -> Some(Instr("LD", Byte("B", "HL")))   \* 0x46
      [] byte = 71 -> Some(Instr("LD", Byte("B", "A")))   \* 0x47
      [] byte = 14 -> Some(Instr("LD", Byte("C", "N8")))   \* 0x0E
      [] byte = 72 -> Some(Instr("LD", Byte("C", "B")))   \* 0x48
      [] byte = 73 -> Some(Instr("LD", Byte("C", "C")))   \* 0x49
      [] byte = 74 -> Some(Instr("LD", Byte("C", "D")))   \* 0x4A
      [] byte = 75 -> Some(Instr("LD", Byte("C", "E")))   \* 0x4B
      [] byte = 76 -> Some(Instr("LD", Byte("C", "H")))   \* 0x4C
      [] byte = 77 -> Some(Instr("LD", Byte("C", "L")))   \* 0x4D
      [] byte = 78 -> Some(Instr("LD", Byte("C", "HL")))   \* 0x4E
      [] byte = 79 -> Some(Instr("LD", Byte("C", "A")))   \* 0x4F
      [] byte = 22 -> Some(Instr("LD", Byte("D", "N8")))   \* 0x16
      [] byte = 80 -> Some(Instr("LD", Byte("D", "B")))   \* 0x50
      [] byte = 81 -> Some(Instr("LD", Byte("D", "C")))   \* 0x51
      [] byte = 82 -> Some(Instr("LD", Byte("D", "D")))   \* 0x52
      [] byte = 83 -> Some(Instr("LD", Byte("D", "E")))   \* 0x53
      [] byte = 84 -> Some(Instr("LD", Byte("D", "H")))   \* 0x54
      [] byte = 85 -> Some(Instr("LD", Byte("D", "L")))   \* 0x55
      [] byte = 86 -> Some(Instr("LD", Byte("D", "HL")))   \* 0x56
      [] byte = 87 -> Some(Instr("LD", Byte("D", "A")))   \* 0x57
      [] byte = 30 -> Some(Instr("LD", Byte("E", "N8")))   \* 0x1E
      [] byte = 88 -> Some(Instr("LD", Byte("E", "B")))   \* 0x58
      [] byte = 89 -> Some(Instr("LD", Byte("E", "C")))   \* 0x59
      [] byte = 90 -> Some(Instr("LD", Byte("E", "D")))   \* 0x5A
      [] byte = 91 -> Some(Instr("LD", Byte("E", "E")))   \* 0x5B
      [] byte = 92 -> Some(Instr("LD", Byte("E", "H")))   \* 0x5C
      [] byte = 93 -> Some(Instr("LD", Byte("E", "L")))   \* 0x5D
      [] byte = 94 -> Some(Instr("LD", Byte("E", "HL")))   \* 0x5E
      [] byte = 95 -> Some(Instr("LD", Byte("E", "A")))   \* 0x5F
      [] byte = 38 -> Some(Instr("LD", Byte("H", "N8")))   \* 0x26
      [] byte = 96 -> Some(Instr("LD", Byte("H", "B")))   \* 0x60
      [] byte = 97 -> Some(Instr("LD", Byte("H", "C")))   \* 0x61
      [] byte = 98 -> Some(Instr("LD", Byte("H", "D")))   \* 0x62
      [] byte = 99 -> Some(Instr("LD", Byte("H", "E")))   \* 0x63
      [] byte = 100 -> Some(Instr("LD", Byte("H", "H")))   \* 0x64
      [] byte = 101 -> Some(Instr("LD", Byte("H", "L")))   \* 0x65
      [] byte = 102 -> Some(Instr("LD", Byte("H", "HL")))   \* 0x66
      [] byte = 103 -> Some(Instr("LD", Byte("H", "A")))   \* 0x67
      [] byte = 46 -> Some(Instr("LD", Byte("L", "N8")))   \* 0x2E
      [] byte = 104 -> Some(Instr("LD", Byte("L", "B")))   \* 0x68
      [] byte = 105 -> Some(Instr("LD", Byte("L", "C")))   \* 0x69
      [] byte = 106 -> Some(Instr("LD", Byte("L", "D")))   \* 0x6A
      [] byte = 107 -> Some(Instr("LD", Byte("L", "E")))   \* 0x6B
      [] byte = 108 -> Some(Instr("LD", Byte("L", "H")))   \* 0x6C
      [] byte = 109 -> Some(Instr("LD", Byte("L", "L")))   \* 0x6D
      [] byte = 110 -> Some(Instr("LD", Byte("L", "HL")))   \* 0x6E
      [] byte = 111 -> Some(Instr("LD", Byte("L", "A")))   \* 0x6F
      [] byte = 54 -> Some(Instr("LD", Byte("HL", "N8")))   \* 0x36
      [] byte = 112 -> Some(Instr("LD", Byte("HL", "B")))   \* 0x70
      [] byte = 113 -> Some(Instr("LD", Byte("HL", "C")))   \* 0x71
      [] byte = 114 -> Some(Instr("LD", Byte("HL", "D")))   \* 0x72
      [] byte = 115 -> Some(Instr("LD", Byte("HL", "E")))   \* 0x73
      [] byte = 116 -> Some(Instr("LD", Byte("HL", "H")))   \* 0x74
      [] byte = 117 -> Some(Instr("LD", Byte("HL", "L")))   \* 0x75
      [] byte = 119 -> Some(Instr("LD", Byte("HL", "A")))   \* 0x77
      [] byte = 62 -> Some(Instr("LD", Byte("A", "N8")))   \* 0x3E
      [] byte = 120 -> Some(Instr("LD", Byte("A", "B")))   \* 0x78
      [] byte = 121 -> Some(Instr("LD", Byte("A", "C")))   \* 0x79
      [] byte = 122 -> Some(Instr("LD", Byte("A", "D")))   \* 0x7A
      [] byte = 123 -> Some(Instr("LD", Byte("A", "E")))   \* 0x7B
      [] byte = 124 -> Some(Instr("LD", Byte("A", "H")))   \* 0x7C
      [] byte = 125 -> Some(Instr("LD", Byte("A", "L")))   \* 0x7D
      [] byte = 126 -> Some(Instr("LD", Byte("A", "HL")))   \* 0x7E
      [] byte = 127 -> Some(Instr("LD", Byte("A", "A")))   \* 0x7F
      [] byte = 4 -> Some(Instr("INC", "B"))   \* 0x04
      [] byte = 12 -> Some(Instr("INC", "C"))   \* 0x0C
      [] byte = 20 -> Some(Instr("INC", "D"))   \* 0x14
      [] byte = 28 -> Some(Instr("INC", "E"))   \* 0x1C
      [] byte = 36 -> Some(Instr("INC", "H"))   \* 0x24
      [] byte = 44 -> Some(Instr("INC", "L"))   \* 0x2C
      [] byte = 52 -> Some(Instr("INC", "HL"))   \* 0x34
      [] byte = 60 -> Some(Instr("INC", "A"))   \* 0x3C
      [] byte = 5 -> Some(Instr("DEC", "B"))   \* 0x05
      [] byte = 13 -> Some(Instr("DEC", "C"))   \* 0x0D
      [] byte = 21 -> Some(Instr("DEC", "D"))   \* 0x15
      [] byte = 29 -> Some(Instr("DEC", "E"))   \* 0x1D
      [] byte = 37 -> Some(Instr("DEC", "H"))   \* 0x25
      [] byte = 45 -> Some(Instr("DEC", "L"))   \* 0x2D
      [] byte = 53 -> Some(Instr("DEC", "HL"))   \* 0x35
      [] byte = 61 -> Some(Instr("DEC", "A"))   \* 0x3D
      [] byte = 3 -> Some(Instr("INC16", "BC"))   \* 0x03
      [] byte = 19 -> Some(Instr("INC16", "DE"))   \* 0x13
      [] byte = 35 -> Some(Instr("INC16", "HL"))   \* 0x23
      [] byte = 51 -> Some(Instr("INC16", "SP"))   \* 0x33
      [] byte = 11 -> Some(Instr("DEC16", "BC"))   \* 0x0B
      [] byte = 27 -> Some(Instr("DEC16", "DE"))   \* 0x1B
      [] byte = 43 -> Some(Instr("DEC16", "HL"))   \* 0x2B
      [] byte = 59 -> Some(Instr("DEC16", "SP"))   \* 0x3B
      [] byte = 9 -> Some(Instr("ADDHL", "BC"))   \* 0x09
      [] byte = 25 -> Some(Instr("ADDHL", "DE"))   \* 0x19
      [] byte = 41 -> Some(Instr("ADDHL", "HL"))   \* 0x29
      [] byte = 57 -> Some(Instr("ADDHL", "SP"))   \* 0x39
      [] byte = 128 -> Some(Instr("ADD", "B"))   \* 0x80
      [] byte = 129 -> Some(Instr("ADD", "C"))   \* 0x81
      [] byte = 130 -> Some(Instr("ADD", "D"))   \* 0x82
      [] byte = 131 -> Some(Instr("ADD", "E"))   \* 0x83
      [] byte = 132 -> Some(Instr("ADD", "H"))   \* 0x84
      [] byte = 133 -> Some(Instr("ADD", "L"))   \* 0x85
      [] byte = 134 -> Some(Instr("ADD", "HL"))   \* 0x86
      [] byte = 135 -> Some(Instr("ADD", "A"))   \* 0x87
      [] byte = 198 -> Some(Instr("ADD", "N8"))   \* 0xC6
      [] byte = 136 -> Some(Instr("ADC", "B"))   \* 0x88
      [] byte = 137 -> Some(Instr("ADC", "C"))   \* 0x89
      [] byte = 138 -> Some(Instr("ADC", "D"))   \* 0x8A
      [] byte = 139 -> Some(Instr("ADC", "E"))   \* 0x8B
      [] byte = 140 -> Some(Instr("ADC", "H"))   \* 0x8C
      [] byte = 141 -> Some(Instr("ADC", "L"))   \* 0x8D
      [] byte = 142 -> Some(Instr("ADC", "HL"))   \* 0x8E
      [] byte = 143 -> Some(Instr("ADC", "A"))   \* 0x8F
      [] byte = 206 -> Some(Instr("ADC", "N8"))   \* 0xCE
      [] byte = 144 -> Some(Instr("SUB", "B"))   \* 0x90
      [] byte = 145 -> Some(Instr("SUB", "C"))   \* 0x91
      [] byte = 146 -> Some(Instr("SUB", "D"))   \* 0x92
      [] byte = 147 -> Some(Instr("SUB", "E"))   \* 0x93
      [] byte = 148 -> Some(Instr("SUB", "H"))   \* 0x94
      [] byte = 149 -> Some(Instr("SUB", "L"))   \* 0x95
      [] byte = 150 -> Some(Instr("SUB", "HL"))   \* 0x96
      [] byte = 151 -> Some(Instr("SUB", "A"))   \* 0x97
      [] byte = 214 -> Some(Instr("SUB", "N8"))   \* 0xD6
      [] byte = 152 -> Some(Instr("SBC", "B"))   \* 0x98
      [] byte = 153 -> Some(Instr("SBC", "C"))   \* 0x99
      [] byte = 154 -> Some(Instr("SBC", "D"))   \* 0x9A
      [] byte = 155 -> Some(Instr("SBC", "E"))   \* 0x9B
      [] byte = 156 -> Some(Instr("SBC", "H"))   \* 0x9C
      [] byte = 157 -> Some(Instr("SBC", "L"))   \* 0x9D
      [] byte = 158 -> Some(Instr("SBC", "HL"))   \* 0x9E
      [] byte = 159 -> Some(Instr("SBC", "A"))   \* 0x9F
      [] byte = 222 -> Some(Instr("SBC", "N8"))   \* 0xDE
      [] byte = 160 -> Some(Instr("AND", "B"))   \* 0xA0
      [] byte = 161 -> Some(Instr("AND", "C"))   \* 0xA1
      [] byte = 162 -> Some(Instr("AND", "D"))   \* 0xA2
      [] byte = 163 -> Some(Instr("AND", "E"))   \* 0xA3
      [] byte = 164 -> Some(Instr("AND", "H"))   \* 0xA4
      [] byte = 165 -> Some(Instr("AND", "L"))   \* 0xA5
      [] byte = 166 -> Some(Instr("AND", "HL"))   \* 0xA6
      [] byte = 167 -> Some(Instr("AND", "A"))   \* 0xA7
      [] byte = 230 -> Some(Instr("AND", "N8"))   \* 0xE6
      [] byte = 168 -> Some(Instr("XOR", "B"))   \* 0xA8
      [] byte = 169 -> Some(Instr("XOR", "C"))   \* 0xA9
      [] byte = 170 -> Some(Instr("XOR", "D"))   \* 0xAA
      [] byte = 171 -> Some(Instr("XOR", "E"))   \* 0xAB
      [] byte = 172 -> Some(Instr("XOR", "H"))   \* 0xAC
      [] byte = 173 -> Some(Instr("XOR", "L"))   \* 0xAD
      [] byte = 174 -> Some(Instr("XOR", "HL"))   \* 0xAE
      [] byte = 175 -> Some(Instr("XOR", "A"))   \* 0xAF
      [] byte = 238 -> Some(Instr("XOR", "N8"))   \* 0xEE
      [] byte = 176 -> Some(Instr("OR", "B"))   \* 0xB0
      [] byte = 177 -> Some(Instr("OR", "C"))   \* 0xB1
      [] byte = 178 -> Some(Instr("OR", "D"))   \* 0xB2
      [] byte = 179 -> Some(Instr("OR", "E"))   \* 0xB3
      [] byte = 180 -> Some(Instr("OR", "H"))   \* 0xB4
      [] byte = 181 -> Some(Instr("OR", "L"))   \* 0xB5
      [] byte = 182 -> Some(Instr("OR", "HL"))   \* 0xB6
      [] byte = 183 -> Some(Instr("OR", "A"))   \* 0xB7
      [] byte = 246 -> Some(Instr("OR", "N8"))   \* 0xF6
      [] byte = 184 -> Some(Instr("CP", "B"))   \* 0xB8
      [] byte = 185 -> Some(Instr("CP", "C"))   \* 0xB9
      [] byte = 186 -> Some(Instr("CP", "D"))   \* 0xBA
      [] byte = 187 -> Some(Instr("CP", "E"))   \* 0xBB
      [] byte = 188 -> Some(Instr("CP", "H"))   \* 0xBC
      [] byte = 189 -> Some(Instr("CP", "L"))   \* 0xBD
      [] byte = 190 -> Some(Instr("CP", "HL"))   \* 0xBE
      [] byte = 191 -> Some(Instr("CP", "A"))   \* 0xBF
      [] byte = 254 -> Some(Instr("CP", "N8"))   \* 0xFE
      [] byte = 193 -> Some(Instr("POP", "BC"))   \* 0xC1
      [] byte = 209 -> Some(Instr("POP", "DE"))   \* 0xD1
      [] byte = 225 -> Some(Instr("POP", "HL"))   \* 0xE1
      [] byte = 241 -> Some(Instr("POP", "AF"))   \* 0xF1
      [] byte = 197 -> Some(Instr("PUSH", "BC"))   \* 0xC5
      [] byte = 213 -> Some(Instr("PUSH", "DE"))   \* 0xD5
      [] byte = 229 -> Some(Instr("PUSH", "HL"))   \* 0xE5
      [] byte = 245 -> Some(Instr("PUSH", "AF"))   \* 0xF5
      [] OTHER -> Panicking("Unknown instruction (exited from_byte_standard)")

from_byte_prefixed(byte) ==
    Panicking("Unknown instruction (exited from_byte_prefixed)")

\* a decoder with the entry 0xE9 of the architecture, JP HL
from_byte_with_JPHL(byte, prefixed) ==
    IF prefixed THEN from_byte_prefixed(byte)
    ELSE IF byte = 233 THEN Some(Instr("JPHL", 0))
    ELSE from_byte_standard(byte)

\* a decoder whose entry 0x03 names the 8-bit INC for the pair BC
from_byte_with_INC_of_pair(byte, prefixed) ==
    IF prefixed THEN from_byte_prefixed(byte)
    ELSE IF byte = 3 THEN Some(Instr("INC", "BC"))
    ELSE from_byte_standard(byte)

\* a decoder that fills the gap at 0x76 with the regular pattern
from_byte_decoding_0x76(byte, prefixed) ==
    IF prefixed THEN from_byte_prefixed(byte)
    ELSE IF byte = 118 THEN Some(Instr("LD", Byte("HL", "HL")))
    ELSE from_byte_standard(byte)

from_byte(byte, prefixed) ==
    IF prefixed THEN from_byte_prefixed(byte) ELSE from_byte_standard(byte)

----------------------------------------------------------------------------
(* CPU: immediates (src/cpu.rs 53-61).                                     *)

\* increments pc and returns byte at new pc
get_immediate_byte(m) ==
    LET m1 == [m EXCEPT !.pc = wrapping_add(m.pc, 1)] IN
    read_byte(m1, m1.pc)

get_immediate_word(m) ==
    LET value == read_word(m, wrapping_add(m.pc, 1)) IN
    IF ~Ok(value.cpu) THEN value
    ELSE Ret([value.cpu EXCEPT !.pc = wrapping_add(value.cpu.pc, 2)], value.value)

----------------------------------------------------------------------------
(* CPU: the operations behind the instructions (src/cpu.rs 773-1000).      *)
(* Each takes the machine and returns Ret(machine after, returned value).  *)

JP(m, should_jump) ==
    IF should_jump THEN read_word(m, wrapping_add(m.pc, 1))
    ELSE Ret(m, wrapping_add(m.pc, 3))

JR(m, should_jump) ==
    IF should_jump
    THEN LET offset == read_byte(m, wrapping_add(m.pc, 1)) IN
         IF ~Ok(offset.cpu) THEN offset
         ELSE Ret(offset.cpu, wrapping_add_signed(offset.cpu.pc, as_i8(offset.value)))
    ELSE Ret(m, wrapping_add(m.pc, 2))

PUSH(m, value) ==
    LET m1 == [m EXCEPT !.sp = wrapping_sub(m.sp, 2)] IN
    write_word(m1, m1.sp, value)

POP(m) ==
    LET result == read_word(m, m.sp) IN
    IF ~Ok(result.cpu) THEN result
    ELSE Ret([result.cpu EXCEPT !.sp = wrapping_add(result.cpu.sp, 2)], result.value)

\* ADD with the accumulator stored before the half-carry is taken from it
ADD_half_carry_late(m, value) ==
    LET r == overflowing_add8(m.registers.a, value) IN
    Ret([m EXCEPT !.registers.f.zero = r.value = 0,
                  !.registers.f.subtract = FALSE,
                  !.registers.f.half_carry =
                      BitAnd(r.value, 15) + BitAnd(value, 15) > 15,
                  !.registers.f.carry = r.overflow,
                  !.registers.a = r.value],
        r.value)

ADD(m, value) ==
    LET r == overflowing_add8(m.registers.a, value) IN
    Ret([m EXCEPT !.registers.f.zero = r.value = 0,
                  !.registers.f.subtract = FALSE,
                  !.registers.f.half_carry =
                      BitAnd(m.registers.a, 15) + BitAnd(value, 15) > 15,
                  !.registers.f.carry = r.overflow,
                  !.registers.a = r.value],
        r.value)

\* ADDHL that sets the zero flag from the sum, as the 8-bit ADD does
ADDHL_setting_zero(m, value) ==
    LET hl == get_hl(m.registers)
        r  == overflowing_add(hl, value)
        m1 == [m EXCEPT !.registers.f.zero = r.value = 0,
                        !.registers.f.subtract = FALSE,
                        !.registers.f.half_carry =
                            BitAnd(hl, 4095) + BitAnd(value, 4095) > 4095,
                        !.registers.f.carry = r.overflow]
    IN  Ret([m1 EXCEPT !.registers = set_hl(@, r.value)], r.value)

ADDHL(m, value) ==
    LET hl == get_hl(m.registers)
        r  == overflowing_add(hl, value)
        m1 == [m EXCEPT !.registers.f.subtract = FALSE,
                        !.registers.f.half_carry =
                            BitAnd(hl, 4095) + BitAnd(value, 4095) > 4095,
                        !.registers.f.carry = r.overflow]
    IN  Ret([m1 EXCEPT !.registers = set_hl(@, r.value)], r.value)

\* ADC with the carry flag taken from the first addition alone
ADC_first_carry_only(m, value) ==
    LET carry_in == IF m.registers.f.carry THEN 1 ELSE 0
        r1 == overflowing_add8(m.registers.a, value)
        r2 == overflowing_add8(r1.value, carry_in)
    IN  Ret([m EXCEPT !.registers.f.zero = r2.value = 0,
                      !.registers.f.subtract = FALSE,
                      !.registers.f.half_carry =
                          BitAnd(m.registers.a, 15) + BitAnd(value, 15) + carry_in > 15,
                      !.registers.f.carry = r1.overflow,
                      !.registers.a = r2.value],
            r2.value)

ADC(m, value) ==
    LET carry_in == IF m.registers.f.carry THEN 1 ELSE 0
        r1 == overflowing_add8(m.registers.a, value)
        r2 == overflowing_add8(r1.value, carry_in)
    IN  Ret([m EXCEPT !.registers.f.zero = r2.value = 0,
                      !.registers.f.subtract = FALSE,
                      !.registers.f.half_carry =
                          BitAnd(m.registers.a, 15) + BitAnd(value, 15) + carry_in > 15,
                      !.registers.f.carry = r1.overflow \/ r2.overflow,
                      !.registers.a = r2.value],
            r2.value)

SUB(m, value) ==
    LET r == overflowing_sub8(m.registers.a, value) IN
    Ret([m EXCEPT !.registers.f.zero = r.value = 0,
                  !.registers.f.subtract = TRUE,
                  !.registers.f.half_carry =
                      BitAnd(m.registers.a, 15) < BitAnd(value, 15),
                  !.registers.f.carry = r.overflow,
                  !.registers.a = r.value],
        r.value)

\* SBC with the half-carry of SUB, the carry-in left out of the low nibbles
SBC_half_carry_of_SUB(m, value) ==
    LET carry_in == IF m.registers.f.carry THEN 1 ELSE 0
        r1 == overflowing_sub8(m.registers.a, value)
        r2 == overflowing_sub8(r1.value, carry_in)
    IN  Ret([m EXCEPT !.registers.f.zero = r2.value = 0,
                      !.registers.f.subtract = TRUE,
                      !.registers.f.half_carry =
                          BitAnd(m.registers.a, 15) < BitAnd(value, 15),
                      !.registers.f.carry = r1.overflow \/ r2.overflow,
                      !.registers.a = r2.value],
            r2.value)

SBC(m, value) ==
    LET carry_in == IF m.registers.f.carry THEN 1 ELSE 0
        r1 == overflowing_sub8(m.registers.a, value)
        r2 == overflowing_sub8(r1.value, carry_in)
    IN  Ret([m EXCEPT !.registers.f.zero = r2.value = 0,
                      !.registers.f.subtract = TRUE,
                      !.registers.f.half_carry =
                          BitAnd(m.registers.a, 15) < BitAnd(value, 15) + carry_in,
                      !.registers.f.carry = r1.overflow \/ r2.overflow,
                      !.registers.a = r2.value],
            r2.value)

\* AND with the half-carry of OR and XOR
AND_half_carry_clear(m, value) ==
    LET new_value == BitAnd(m.registers.a, value) IN
    Ret([m EXCEPT !.registers.f.zero = new_value = 0,
                  !.registers.f.subtract = FALSE,
                  !.registers.f.half_carry = FALSE,
                  !.registers.f.carry = FALSE,
                  !.registers.a = new_value],
        new_value)

AND(m, value) ==
    LET new_value == BitAnd(m.registers.a, value) IN
    Ret([m EXCEPT !.registers.f.zero = new_value = 0,
                  !.registers.f.subtract = FALSE,
                  !.registers.f.half_carry = TRUE,
                  !.registers.f.carry = FALSE,
                  !.registers.a = new_value],
        new_value)

OR(m, value) ==
    LET new_value == BitOr(m.registers.a, value) IN
    Ret([m EXCEPT !.registers.f.zero = new_value = 0,
                  !.registers.f.subtract = FALSE,
                  !.registers.f.half_carry = FALSE,
                  !.registers.f.carry = FALSE,
                  !.registers.a = new_value],
        new_value)

XOR(m, value) ==
    LET new_value == BitXor(m.registers.a, value) IN
    Ret([m EXCEPT !.registers.f.zero = new_value = 0,
                  !.registers.f.subtract = FALSE,
                  !.registers.f.half_carry = FALSE,
                  !.registers.f.carry = FALSE,
                  !.registers.a = new_value],
        new_value)

\* CP that keeps the difference in the accumulator, as SUB does
CP_storing_result(m, value) == Ret(SUB(m, value).cpu, 0)

CP(m, value) ==
    LET r == overflowing_sub8(m.registers.a, value) IN
    Ret([m EXCEPT !.registers.f.zero = r.value = 0,
                  !.registers.f.subtract = TRUE,
                  !.registers.f.half_carry =
                      BitAnd(m.registers.a, 15) < BitAnd(value, 15),
                  !.registers.f.carry = r.overflow],
        0)

INC(m, value) ==
    LET new_value == wrapping_add8(value, 1) IN
    Ret([m EXCEPT !.registers.f.zero = new_value = 0,
                  !.registers.f.subtract = FALSE,
                  !.registers.f.half_carry = BitAnd(value, 15) = 15],
        new_value)

DEC(m, value) ==
    LET new_value == wrapping_sub8(value, 1) IN
    Ret([m EXCEPT !.registers.f.zero = new_value = 0,
                  !.registers.f.subtract = TRUE,
                  !.registers.f.half_carry = BitAnd(value, 15) = 0],
        new_value)

RLCA(m) ==
    LET old_a == m.registers.a
        old_msb == IF BitAnd(old_a, 128) # 0 THEN 1 ELSE 0
        new_value == BitOr(Shl(old_a, 1, 256), old_msb)
    IN  Ret([m EXCEPT !.registers.f.carry = old_msb # 0,
                      !.registers.f.subtract = FALSE,
                      !.registers.f.half_carry = FALSE,
                      !.registers.a = new_value],
            0)

RRCA(m) ==
    LET old_a == m.registers.a
        old_lsb == IF BitAnd(old_a, 1) # 0 THEN 128 ELSE 0
        new_value == BitOr(Shr(old_a, 1), old_lsb)
    IN  Ret([m EXCEPT !.registers.f.carry = old_lsb # 0,
                      !.registers.f.subtract = FALSE,
                      !.registers.f.half_carry = FALSE,
                      !.registers.a = new_value],
            0)

\* RLA that sets the zero flag from the rotated accumulator
RLA_setting_zero(m) ==
    LET old_a == m.registers.a
        carry_in == IF m.registers.f.carry THEN 1 ELSE 0
        new_value == BitOr(Shl(old_a, 1, 256), carry_in)
    IN  Ret([m EXCEPT !.registers.f.carry = BitAnd(old_a, 128) # 0,
                      !.registers.f.zero = new_value = 0,
                      !.registers.f.subtract = FALSE,
                      !.registers.f.half_carry = FALSE,
                      !.registers.a = new_value],
            0)

RLA(m) ==
    LET old_a == m.registers.a
        carry_in == IF m.registers.f.carry THEN 1 ELSE 0
        new_value == BitOr(Shl(old_a, 1, 256), carry_in)
    IN  Ret([m EXCEPT !.registers.f.carry = BitAnd(old_a, 128) # 0,
                      !.registers.f.subtract = FALSE,
                      !.registers.f.half_carry = FALSE,
                      !.registers.a = new_value],
            0)

RRA(m) ==
    LET old_a == m.registers.a
        carry_in == IF m.registers.f.carry THEN 128 ELSE 0
        new_value == BitOr(Shr(old_a, 1), carry_in)
    IN  Ret([m EXCEPT !.registers.f.carry = BitAnd(old_a, 1) # 0,
                      !.registers.f.subtract = FALSE,
                      !.registers.f.half_carry = FALSE,
                      !.registers.a = new_value],
            0)

CPL(m) ==
    Ret([m EXCEPT !.registers.f.subtract = TRUE,
                  !.registers.f.half_carry = TRUE,
                  !.registers.a = BitXor(m.registers.a, 255)],
        0)

SCF(m) ==
    Ret([m EXCEPT !.registers.f.carry = TRUE,
                  !.registers.f.subtract = FALSE,
                  !.registers.f.half_carry = FALSE],
        0)

CCF(m) ==
    Ret([m EXCEPT !.registers.f.carry = ~m.registers.f.carry,
                  !.registers.f.subtract = FALSE,
                  !.registers.f.half_carry = FALSE],
        0)

\* 1 << bit on u8 overflows for bit >= 8
BIT(m, bit, r) ==
    IF ShiftOverflows(bit, 256) /\ m.overflow_checks THEN Ret(Fault(m, ShiftOverflow), 0)
    ELSE LET bit_set == BitAnd(r, Shl(1, bit, 256)) # 0 IN
         Ret([m EXCEPT !.registers.f.zero = ~bit_set,
                       !.registers.f.subtract = FALSE,
                       !.registers.f.half_carry = TRUE],
             0)

\* r & !(1 << bit)
RES(m, bit, r) ==
    IF ShiftOverflows(bit, 256) /\ m.overflow_checks THEN Ret(Fault(m, ShiftOverflow), 0)
    ELSE Ret(m, BitAnd(r, 255 - Shl(1, bit, 256)))

SET(m, bit, r) ==
    IF ShiftOverflows(bit, 256) /\ m.overflow_checks THEN Ret(Fault(m, ShiftOverflow), 0)
    ELSE Ret(m, BitOr(r, Shl(1, bit, 256)))

----------------------------------------------------------------------------
(* CPU::execute (src/cpu.rs 63-771).                                       *)

Registers8 == {"A", "B", "C", "D", "E", "H", "L"}

Reg8(registers, name) ==
    CASE name = "A" -> registers.a
      [] name = "B" -> registers.b
      [] name = "C" -> registers.c
      [] name = "D" -> registers.d
      [] name = "E" -> registers.e
      [] name = "H" -> registers.h
      [] name = "L" -> registers.l

SetReg8(registers, name, value) ==
    CASE name = "A" -> [registers EXCEPT !.a = value]
      [] name = "B" -> [registers EXCEPT !.b = value]
      [] name = "C" -> [registers EXCEPT !.c = value]
      [] name = "D" -> [registers EXCEPT !.d = value]
      [] name = "E" -> [registers EXCEPT !.e = value]
      [] name = "H" -> [registers EXCEPT !.h = value]
      [] name = "L" -> [registers EXCEPT !.l = value]

Reg16(registers, name) ==
    CASE name = "BC" -> get_bc(registers)
      [] name = "DE" -> get_de(registers)
      [] name = "HL" -> get_hl(registers)
      [] name = "AF" -> get_af(registers)

SetReg16(registers, name, value) ==
    CASE name = "BC" -> set_bc(registers, value)
      [] name = "DE" -> set_de(registers, value)
      [] name = "HL" -> set_hl(registers, value)
      [] name = "AF" -> set_af(registers, value)

\* match test { NotZero => !zero, Zero => zero, NotCarry => !carry, Carry => carry, Always => true }
jump_condition(m, test) ==
    CASE test = "NotZero"  -> ~m.registers.f.zero
      [] test = "Zero"     -> m.registers.f.zero
      [] test = "NotCarry" -> ~m.registers.f.carry
      [] test = "Carry"    -> m.registers.f.carry
      [] test = "Always"   -> TRUE

\* the operand of ADD, ADC, SUB, SBC, AND, OR, XOR, CP: a register, the byte
\* at HL or the immediate byte; any other target panics with `message`
ArithmeticOperand(m, target, message) ==
    CASE target \in Registers8 -> Ret(m, Reg8(m.registers, target))
      [] target = "HL" -> read_byte(m, get_hl(m.registers))
      [] target = "N8" -> get_immediate_byte(m)
      [] OTHER -> Ret(Fault(m, message), 0)

\* the operand of ADDHL: BC, DE, HL or the stack pointer
WordOperand(m, target, message) ==
    CASE target \in {"BC", "DE", "HL"} -> Ret(m, Reg16(m.registers, target))
      [] target = "SP" -> Ret(m, m.sp)
      [] OTHER -> Ret(Fault(m, message), 0)

\* the tail of every non-jump case: self.pc.wrapping_add(n)
Advance(r, n) == IF Ok(r.cpu) THEN Ret(r.cpu, wrapping_add(r.cpu.pc, n)) ELSE Ret(r.cpu, 0)

\* a byte load that sets the zero flag from the byte it loads, as the
\* arithmetic instructions do from their result
execute_LD_Byte_setting_zero(m, target, source) ==
    LET source_value ==
            CASE source \in Registers8 -> Ret(m, Reg8(m.registers, source))
              [] source \in {"BC", "DE", "HL"} -> read_byte(m, Reg16(m.registers, source))
              [] source = "N8" -> get_immediate_byte(m)
        m1 == source_value.cpu
        stored ==
            IF ~Ok(m1) THEN m1
            ELSE CASE target \in Registers8 ->
                        [m1 EXCEPT !.registers = SetReg8(@, target, source_value.value),
                                   !.registers.f.zero = source_value.value = 0]
                   [] target \in {"BC", "DE", "HL"} ->
                        write_byte(m1, Reg16(m1.registers, target), source_value.value)
    IN  Advance(Ret(stored, 0), 1)

execute_LD_Byte(m, target, source) ==
    LET source_value ==
            CASE source \in Registers8 -> Ret(m, Reg8(m.registers, source))
              [] source \in {"BC", "DE", "HL"} -> read_byte(m, Reg16(m.registers, source))
              [] source = "N8" -> get_immediate_byte(m)
        m1 == source_value.cpu
        stored ==
            IF ~Ok(m1) THEN m1
            ELSE CASE target \in Registers8 ->
                        [m1 EXCEPT !.registers = SetReg8(@, target, source_value.value)]
                   [] target \in {"BC", "DE", "HL"} ->
                        write_byte(m1, Reg16(m1.registers, target), source_value.value)
    IN  Advance(Ret(stored, 0), 1)

execute_LD_Word(m, target, source) ==
    LET source_value ==
            CASE source = "N16" -> get_immediate_word(m)
              [] source = "SP"  -> Ret(m, m.sp)
        m1 == source_value.cpu
        stored ==
            IF ~Ok(m1) THEN m1
            ELSE CASE target \in {"BC", "DE", "HL"} ->
                        [m1 EXCEPT !.registers = SetReg16(@, target, source_value.value)]
                   [] target = "SP" -> [m1 EXCEPT !.sp = source_value.value]
                   [] target = "A16" ->
                        LET address == get_immediate_word(m1) IN
                        IF ~Ok(address.cpu) THEN address.cpu
                        ELSE write_word(address.cpu, address.value, source_value.value)
    IN  Advance(Ret(stored, 0), 1)

execute_LD_AddressIncDec(m, target, source, mode) ==
    LET hl == get_hl(m.registers)
        moved ==
            CASE target = "A" /\ source = "HL" ->
                    LET r == read_byte(m, hl) IN
                    IF ~Ok(r.cpu) THEN r.cpu
                    ELSE [r.cpu EXCEPT !.registers.a = r.value]
              [] target = "HL" /\ source = "A" -> write_byte(m, hl, m.registers.a)
              [] OTHER -> Fault(m, "Invalid AddressIncDec inputs")
        new_hl == IF mode = "Inc" THEN wrapping_add(hl, 1) ELSE wrapping_sub(hl, 1)
    IN  IF ~Ok(moved) THEN Ret(moved, 0)
        ELSE Advance(Ret([moved EXCEPT !.registers = set_hl(@, new_hl)], 0), 1)

execute_LD(m, load) ==
    CASE load.load_type = "Byte" -> execute_LD_Byte(m, load.target, load.source)
      [] load.load_type = "Word" -> execute_LD_Word(m, load.target, load.source)
      [] load.load_type = "AddressIncDec" ->
            execute_LD_AddressIncDec(m, load.target, load.source, load.mode)

execute_PUSH(m, target) ==
    Advance(Ret(PUSH(m, Reg16(m.registers, target)), 0), 1)

\* POP that, into AF, restores A and leaves the flags as they were
execute_POP_keeping_flags(m, target) ==
    LET value == POP(m) IN
    IF ~Ok(value.cpu) THEN Ret(value.cpu, 0)
    ELSE IF target = "AF"
         THEN Advance(Ret([value.cpu EXCEPT !.registers.a = value.value \div 256], 0), 1)
         ELSE Advance(Ret([value.cpu EXCEPT !.registers = SetReg16(@, target, value.value)], 0), 1)

execute_POP(m, target) ==
    LET value == POP(m) IN
    IF ~Ok(value.cpu) THEN Ret(value.cpu, 0)
    ELSE Advance(Ret([value.cpu EXCEPT !.registers = SetReg16(@, target, value.value)], 0), 1)

\* ADD, ADC, SUB, SBC, AND, OR, XOR, CP on an ArithmeticTarget
execute_arithmetic(m, tag, target) ==
    LET value == ArithmeticOperand(m, target,
                     CASE tag = "ADD" -> "Incompatible ArithmeticTarget for ADD"
                       [] tag = "ADC" -> "Incompatible ArithmeticTarget for ADC"
                       [] tag = "SUB" -> "Incompatible ArithmeticTarget for SUB"
                       [] tag = "SBC" -> "Incompatible ArithmeticTarget for SBC"
                       [] tag = "AND" -> "Incompatible ArithmeticTarget for AND"
                       [] tag = "OR"  -> "Incompatible ArithmeticTarget for OR"
                       [] tag = "XOR" -> "Incompatible ArithmeticTarget for XOR"
                       [] tag = "CP"  -> "Incompatible ArithmeticTarget for CP")
    IN  IF ~Ok(value.cpu) THEN Ret(value.cpu, 0)
        ELSE Advance(CASE tag = "ADD" -> ADD(value.cpu, value.value)
                       [] tag = "ADC" -> ADC(value.cpu, value.value)
                       [] tag = "SUB" -> SUB(value.cpu, value.value)
                       [] tag = "SBC" -> SBC(value.cpu, value.value)
                       [] tag = "AND" -> AND(value.cpu, value.value)
                       [] tag = "OR"  -> OR(value.cpu, value.value)
                       [] tag = "XOR" -> XOR(value.cpu, value.value)
                       [] tag = "CP"  -> CP(value.cpu, value.value),
                     1)

execute_ADDHL(m, target) ==
    LET value == WordOperand(m, target, "Incompatible ArithmeticTarget for ADDHL") IN
    IF ~Ok(value.cpu) THEN Ret(value.cpu, 0)
    ELSE Advance(ADDHL(value.cpu, value.value), 1)

\* INC and DEC on a register or on the byte at HL
execute_INC_DEC(m, tag, target) ==
    CASE target \in Registers8 ->
            LET r == IF tag = "INC" THEN INC(m, Reg8(m.registers, target))
                                    ELSE DEC(m, Reg8(m.registers, target))
            IN  Advance(Ret([r.cpu EXCEPT !.registers = SetReg8(@, target, r.value)], 0), 1)
      [] target = "HL" ->
            LET hl == get_hl(m.registers)
                value == read_byte(m, hl)
            IN  IF ~Ok(value.cpu) THEN Ret(value.cpu, 0)
                ELSE LET r == IF tag = "INC" THEN INC(value.cpu, value.value)
                                             ELSE DEC(value.cpu, value.value)
                     IN  Advance(Ret(write_byte(r.cpu, hl, r.value), 0), 1)
      [] OTHER ->
            Ret(Fault(m, IF tag = "INC" THEN "Incompatible ArithmeticTarget for INC"
                                        ELSE "Incompatible ArithmeticTarget for DEC"), 0)

\* INC16 and DEC16 on BC, DE, HL or the stack pointer
\* INC16/DEC16 that set zero and subtract as the 8-bit INC and DEC do
execute_INC16_DEC16_setting_flags(m, tag, target) ==
    LET value == WordOperand(m, target,
                     IF tag = "INC16" THEN "Incompatible ArithmeticTarget for INC16"
                                      ELSE "Incompatible ArithmeticTarget for DEC16")
        new_value == IF tag = "INC16" THEN wrapping_add(value.value, 1)
                                      ELSE wrapping_sub(value.value, 1)
        m1 == [m EXCEPT !.registers.f.zero = new_value = 0,
                        !.registers.f.subtract = tag = "DEC16"]
    IN  IF ~Ok(value.cpu) THEN Ret(value.cpu, 0)
        ELSE IF target = "SP" THEN Advance(Ret([m1 EXCEPT !.sp = new_value], 0), 1)
        ELSE Advance(Ret([m1 EXCEPT !.registers = SetReg16(@, target, new_value)], 0), 1)

execute_INC16_DEC16(m, tag, target) ==
    LET value == WordOperand(m, target,
                     IF tag = "INC16" THEN "Incompatible ArithmeticTarget for INC16"
                                      ELSE "Incompatible ArithmeticTarget for DEC16")
        new_value == IF tag = "INC16" THEN wrapping_add(value.value, 1)
                                      ELSE wrapping_sub(value.value, 1)
    IN  IF ~Ok(value.cpu) THEN Ret(value.cpu, 0)
        ELSE IF target = "SP" THEN Advance(Ret([m EXCEPT !.sp = new_value], 0), 1)
        ELSE Advance(Ret([m EXCEPT !.registers = SetReg16(@, target, new_value)], 0), 1)

\* BIT, RES, SET on a register or on the byte at HL
execute_prefixed(m, tag, bit, target) ==
    LET message == CASE tag = "BIT" -> "Incompatible ArithmeticTarget for BIT"
                     [] tag = "RES" -> "Incompatible ArithmeticTarget for RES"
                     [] tag = "SET" -> "Incompatible ArithmeticTarget for SET"
        value == CASE target \in Registers8 -> Ret(m, Reg8(m.registers, target))
                   [] target = "HL" -> read_byte(m, get_hl(m.registers))
                   [] OTHER -> Ret(Fault(m, message), 0)
    IN  IF ~Ok(value.cpu) THEN Ret(value.cpu, 0)
        ELSE IF tag = "BIT" THEN Advance(BIT(value.cpu, bit, value.value), 2)
        ELSE LET r == IF tag = "RES" THEN RES(value.cpu, bit, value.value)
                                     ELSE SET(value.cpu, bit, value.value)
             IN  IF ~Ok(r.cpu) THEN Ret(r.cpu, 0)
                 ELSE IF target = "HL"
                 THEN Advance(Ret(write_byte(r.cpu, get_hl(m.registers), r.value), 0), 2)
                 ELSE Advance(Ret([r.cpu EXCEPT !.registers = SetReg8(@, target, r.value)], 0), 2)

\* execute(instruction): Ret(machine after, next pc)
execute(m, instruction) ==
    LET tag == instruction.tag
        arg == instruction.arg
    IN  CASE tag = "JP"   -> JP(m, jump_condition(m, arg))
          [] tag = "JR"   -> JR(m, jump_condition(m, arg))
          [] tag = "JPHL" -> Ret(m, get_hl(m.registers))
          [] tag = "LD"   -> execute_LD(m, arg)
          [] tag = "PUSH" -> execute_PUSH(m, arg)
          [] tag = "POP"  -> execute_POP(m, arg)
          [] tag \in {"ADD", "ADC", "SUB", "SBC", "AND", "OR", "XOR", "CP"} ->
                execute_arithmetic(m, tag, arg)
          [] tag = "ADDHL" -> execute_ADDHL(m, arg)
          [] tag \in {"INC", "DEC"} -> execute_INC_DEC(m, tag, arg)
          [] tag \in {"INC16", "DEC16"} -> execute_INC16_DEC16(m, tag, arg)
          [] tag = "RLCA" -> Advance(RLCA(m), 1)
          [] tag = "RRCA" -> Advance(RRCA(m), 1)
          [] tag = "RLA"  -> Advance(RLA(m), 1)
          [] tag = "RRA"  -> Advance(RRA(m), 1)
          [] tag = "CPL"  -> Advance(CPL(m), 1)
          [] tag = "SCF"  -> Advance(SCF(m), 1)
          [] tag = "CCF"  -> Advance(CCF(m), 1)
          [] tag \in {"BIT", "RES", "SET"} -> execute_prefixed(m, tag, arg.bit, arg.target)

\* step() with the extended byte fetched through get_immediate_byte, which
\* moves pc before the decoder is asked
step_moving_pc(m) ==
    LET first == read_byte(m, m.pc) IN
    IF ~Ok(first.cpu) THEN first.cpu
    ELSE LET prefixed == first.value = 203
             fetched  == IF prefixed THEN get_immediate_byte(m) ELSE first
         IN  IF ~Ok(fetched.cpu) THEN fetched.cpu
             ELSE LET decoded == from_byte(fetched.value, prefixed) IN
                  CASE decoded.kind = "panic" -> Fault(fetched.cpu, decoded.message)
                    [] decoded.kind = "None" ->
                          Fault(fetched.cpu, "Unkown instruction found for")
                    [] decoded.kind = "Some" ->
                          LET next_pc == execute(fetched.cpu, decoded.instruction) IN
                          IF ~Ok(next_pc.cpu) THEN next_pc.cpu
                          ELSE [next_pc.cpu EXCEPT !.pc = next_pc.value]

\* CPU::step (src/cpu.rs 37-51)
step(m) ==
    LET first == read_byte(m, m.pc) IN
    IF ~Ok(first.cpu) THEN first.cpu
    ELSE LET prefixed == first.value = 203
             fetched  == IF prefixed THEN read_byte(m, wrapping_add(m.pc, 1)) ELSE first
         IN  IF ~Ok(fetched.cpu) THEN fetched.cpu
             ELSE LET decoded == from_byte(fetched.value, prefixed) IN
                  CASE decoded.kind = "panic" -> Fault(m, decoded.message)
                    [] decoded.kind = "None" ->
                          Fault(m, "Unkown instruction found for")
                    [] decoded.kind = "Some" ->
                          LET next_pc == execute(m, decoded.instruction) IN
                          IF ~Ok(next_pc.cpu) THEN next_pc.cpu
                          ELSE [next_pc.cpu EXCEPT !.pc = next_pc.value]

----------------------------------------------------------------------------
(* GPU (src/gpu.rs).                                                       *)

VRAM_BEGIN == 32768
VRAM_END == 40959
VRAM_SIZE == VRAM_END - VRAM_BEGIN + 1
TILE_DATA_SIZE == 6144
TILE_COUNT == 384     \* tile_set: [Tile; 384]

\* enum TilePixelValue, in declaration order
TilePixelValue == <<"Zero", "One", "Two", "Three">>

\* a row of a Tile: [TilePixelValue; 8], indexed by pixel_index 0..7
EmptyRow == [pixel_index \in 0..7 |-> "Zero"]

\* tile_set[tile_index][row_index], held sparsely: a row outside the DOMAIN
\* is EmptyRow (as empty_tile() makes it) and no row in the DOMAIN is EmptyRow
TileRow(tile_set, tile_index, row_index) ==
    IF <<tile_index, row_index>> \in DOMAIN tile_set
    THEN tile_set[<<tile_index, row_index>>]
    ELSE EmptyRow

StoreRow(tile_set, tile_index, row_index, row) ==
    LET key == <<tile_index, row_index>> IN
    IF row = EmptyRow
    THEN [k \in DOMAIN tile_set \ {key} |-> tile_set[k]]
    ELSE [k \in DOMAIN tile_set \cup {key} |-> IF k = key THEN row ELSE tile_set[k]]

read_vram(g, address) ==
    IF address < VRAM_SIZE THEN Ret(g, Load(g.vram, address))
    ELSE Ret(Fault(g, OutOfBounds), 0)

\* the match on (msb != 0, lsb != 0)
pixel_value(msb, lsb) ==
    CASE msb # 0 /\ lsb # 0 -> "Three"
      [] msb # 0 /\ lsb = 0 -> "Two"
      [] msb = 0 /\ lsb # 0 -> "One"
      [] msb = 0 /\ lsb = 0 -> "Zero"

\* the two bit planes exchanged: byte1's bit taken as the most significant
decode_row_planes_swapped(byte1, byte2) ==
    [pixel_index \in 0..7 |->
        LET mask == Shl(1, 7 - pixel_index, 256)
            lsb == BitAnd(byte2, mask)
            msb == BitAnd(byte1, mask)
        IN  pixel_value(msb, lsb)]

\* the row the loop over pixel_index 0..8 stores
decode_row(byte1, byte2) ==
    [pixel_index \in 0..7 |->
        LET mask == Shl(1, 7 - pixel_index, 256)
            lsb == BitAnd(byte1, mask)
            msb == BitAnd(byte2, mask)
        IN  pixel_value(msb, lsb)]

\* write_vram decoding the pair at the written index, its lowest bit kept
normalize_skipped(index) == index

\* index & 0xFFFE
normalize(index) == BitAnd(index, 65534)

\* write_vram without the check of the tile-data bounds: every write is
\* decoded into the tile set
write_vram_decoding_everywhere(g, index, value) ==
    IF index >= VRAM_SIZE THEN Fault(g, OutOfBounds)
    ELSE LET g1 == [g EXCEPT !.vram = Store(@, index, value)]
             even == normalize(index)
             tile_index == even \div 16
             row_index == (even % 16) \div 2
         IN  IF even + 1 >= VRAM_SIZE \/ tile_index >= TILE_COUNT
             THEN Fault(g1, OutOfBounds)
             ELSE [g1 EXCEPT !.tile_set =
                       StoreRow(@, tile_index, row_index,
                                decode_row(Load(g1.vram, even), Load(g1.vram, even + 1)))]

\* write_vram returning early only past TILE_DATA_SIZE (> for >=)
write_vram_returning_one_late(g, index, value) ==
    IF index >= VRAM_SIZE THEN Fault(g, OutOfBounds)
    ELSE LET g1 == [g EXCEPT !.vram = Store(@, index, value)] IN
         IF index > TILE_DATA_SIZE THEN g1
         ELSE LET even == normalize(index)
                  tile_index == even \div 16
                  row_index == (even % 16) \div 2
              IN  IF even + 1 >= VRAM_SIZE \/ tile_index >= TILE_COUNT
                  THEN Fault(g1, OutOfBounds)
                  ELSE [g1 EXCEPT !.tile_set =
                            StoreRow(@, tile_index, row_index,
                                     decode_row(Load(g1.vram, even), Load(g1.vram, even + 1)))]

write_vram(g, index, value) ==
    IF index >= VRAM_SIZE THEN Fault(g, OutOfBounds)
    ELSE LET g1 == [g EXCEPT !.vram = Store(@, index, value)] IN
         IF index >= TILE_DATA_SIZE THEN g1
         ELSE LET even == normalize(index)
                  tile_index == even \div 16
                  row_index == (even % 16) \div 2
              IN  IF even + 1 >= VRAM_SIZE \/ tile_index >= TILE_COUNT
                  THEN Fault(g1, OutOfBounds)
                  ELSE [g1 EXCEPT !.tile_set =
                            StoreRow(@, tile_index, row_index,
                                     decode_row(Load(g1.vram, even), Load(g1.vram, even + 1)))]

----------------------------------------------------------------------------
(* The machine after construction, and the history of operations.          *)

NoFlags == [zero |-> FALSE, subtract |-> FALSE, half_carry |-> FALSE, carry |-> FALSE]
AllFlags == [zero |-> TRUE, subtract |-> TRUE, half_carry |-> TRUE, carry |-> TRUE]

\* overflow_checks is the build's setting of that name: on in a debug build,
\* off in a release build
ResetCpu ==
    [registers |-> [a |-> 0, b |-> 0, c |-> 0, d |-> 0, e |-> 0, h |-> 0, l |-> 0,
                    f |-> NoFlags],
     pc |-> 0, sp |-> 0,
     bus |-> [memory |-> EmptyArray],
     panic |-> "none",
     overflow_checks |-> TRUE]

ResetGpu == [vram |-> EmptyArray, tile_set |-> [k \in {} |-> EmptyRow], panic |-> "none"]

Last == hist[Len(hist)]
Prev == hist[Len(hist) - 1]
Did(op) == Len(hist) >= 1 /\ Last.op = op
DidAfter(first, second) ==
    Len(hist) >= 2 /\ Prev.op = first /\ Last.op = second

\* memory with `bytes` placed from `address` on, skipping what the array lacks
RECURSIVE Place(_, _, _)
Place(memory, address, bytes) ==
    IF bytes = <<>> THEN memory
    ELSE Place(IF address < MEM_SIZE THEN Store(memory, address, Head(bytes)) ELSE memory,
               wrapping_add(address, 1), Tail(bytes))

----------------------------------------------------------------------------
(* Specification SpecDecode: the decoder applied to every byte, with and   *)
(* without the extended flag.                                              *)

InitDecode ==
    /\ cpu = ResetCpu
    /\ gpu = ResetGpu
    /\ hist = <<>>

Decode ==
    \E byte \in U8, prefixed \in BOOLEAN :
        /\ hist' = <<[op |-> "from_byte", byte |-> byte, prefixed |-> prefixed,
                      ret |-> from_byte(byte, prefixed)]>>
        /\ UNCHANGED <<cpu, gpu>>

NextDecode == Decode

SpecDecode == InitDecode /\ [][NextDecode]_vars

\* C1: for every byte and either value of the extended flag from_byte
\* returns a value (Some instruction, or None for a byte with no table
\* entry) and never panics.
C1_FromByteReturns ==
    Did("from_byte") => Last.ret.kind \in {"Some", "None"}

----------------------------------------------------------------------------
(* Specification SpecStep: step() on a machine whose memory holds a short  *)
(* program at pc.                                                          *)

MaxSteps == 2

StepPcs == {0, 256, 49152, 65533, 65534, 65535}
SecondBytes == {0, 4, 127, 203, 255}

\* registers that differ pairwise, HL and sp pointing into memory
StepRegisters ==
    [a |-> 18, b |-> 52, c |-> 86, d |-> 120, e |-> 154, h |-> 192, l |-> 16,
     f |-> [zero |-> FALSE, subtract |-> TRUE, half_carry |-> FALSE, carry |-> TRUE]]

InitStep ==
    /\ \E pc \in StepPcs, opcode \in U8, second \in SecondBytes :
          cpu = [ResetCpu EXCEPT
                    !.registers = StepRegisters,
                    !.pc = pc,
                    !.sp = 53248,
                    !.bus.memory = Place(EmptyArray, pc, <<opcode, second, 60>>)]
    /\ gpu = ResetGpu
    /\ hist = <<>>

Step ==
    /\ Ok(cpu)
    /\ Len(hist) < MaxSteps
    /\ cpu' = step(cpu)
    /\ hist' = Append(hist, [op |-> "step", before |-> cpu])
    /\ UNCHANGED gpu

NextStep == Step

SpecStep == InitStep /\ [][NextStep]_vars

\* the byte step() decodes from machine m has no entry in its table; the
\* fetch of that byte (and of the marker before it) is within the array
HasEntry(byte, prefixed) == from_byte(byte, prefixed).kind = "Some"

MeetsUnknownOpcode(m) ==
    /\ m.pc < MEM_SIZE
    /\ LET opcode == Load(m.bus.memory, m.pc) IN
       IF opcode = 203
       THEN /\ wrapping_add(m.pc, 1) < MEM_SIZE
            /\ ~HasEntry(Load(m.bus.memory, wrapping_add(m.pc, 1)), TRUE)
       ELSE ~HasEntry(opcode, FALSE)

\* C2: when step() meets an opcode byte (standard or extended) without a
\* table entry, the step fails and registers, flags, pc, sp and memory are
\* what they were before the fetch.
C2_UnknownOpcodeLeavesState ==
    (Did("step") /\ MeetsUnknownOpcode(Last.before)) =>
        /\ ~Ok(cpu)
        /\ cpu.registers = Last.before.registers
        /\ cpu.pc = Last.before.pc
        /\ cpu.sp = Last.before.sp
        /\ cpu.bus = Last.before.bus

\* an unknown extended opcode was met at a pc other than 0 and the step failed
C2_Witness ==
    /\ Did("step")
    /\ MeetsUnknownOpcode(Last.before)
    /\ Load(Last.before.bus.memory, Last.before.pc) = 203
    /\ Last.before.pc = 256
    /\ ~Ok(cpu)

\* machine m has the prefix byte 0xCB at pc, and both that byte and the one
\* after it are within the array
MeetsPrefix(m) ==
    /\ m.pc < MEM_SIZE
    /\ wrapping_add(m.pc, 1) < MEM_SIZE
    /\ Load(m.bus.memory, m.pc) = 203

\* C11: when the byte at pc is 0xCB, step() decodes the byte at pc+1
\* against the extended table, executes that instruction and stores
\* pc = pc + 2 (mod 65536).
C11_PrefixedStepAdvancesByTwo ==
    (Did("step") /\ MeetsPrefix(Last.before)) =>
        /\ Ok(cpu)
        /\ cpu.pc = wrapping_add(Last.before.pc, 2)

----------------------------------------------------------------------------
(* Specification SpecBus: byte and word accesses of the memory bus, at the *)
(* ends and in the middle of the address range.                            *)

MaxBusOps == 2

BusAddresses == {0, 1, 255, 256, 32768, 65533, 65534, 65535}
BusWords == {0, 1, 255, 256, 4660, 43981, 65280, 65535}
BusBytes == {0, 1, 128, 255}

InitBus ==
    /\ cpu = ResetCpu
    /\ gpu = ResetGpu
    /\ hist = <<>>

BusReady == Ok(cpu) /\ Len(hist) < MaxBusOps

BusReadByte ==
    /\ BusReady
    /\ \E address \in BusAddresses :
          LET r == read_byte(cpu, address) IN
          /\ cpu' = r.cpu
          /\ hist' = Append(hist, [op |-> "read_byte", address |-> address,
                                   ret |-> r.value, before |-> cpu])
    /\ UNCHANGED gpu

BusWriteByte ==
    /\ BusReady
    /\ \E address \in BusAddresses, value \in BusBytes :
          /\ cpu' = write_byte(cpu, address, value)
          /\ hist' = Append(hist, [op |-> "write_byte", address |-> address,
                                   value |-> value, before |-> cpu])
    /\ UNCHANGED gpu

BusReadWord ==
    /\ BusReady
    /\ \E address \in BusAddresses :
          LET r == read_word(cpu, address) IN
          /\ cpu' = r.cpu
          /\ hist' = Append(hist, [op |-> "read_word", address |-> address,
                                   ret |-> r.value, before |-> cpu])
    /\ UNCHANGED gpu

BusWriteWord ==
    /\ BusReady
    /\ \E address \in BusAddresses, value \in BusWords :
          /\ cpu' = write_word(cpu, address, value)
          /\ hist' = Append(hist, [op |-> "write_word", address |-> address,
                                   value |-> value, before |-> cpu])
    /\ UNCHANGED gpu

NextBus == BusReadByte \/ BusWriteByte \/ BusReadWord \/ BusWriteWord

SpecBus == InitBus /\ [][NextBus]_vars

\* C3: for any address in 0..65535 and any 16-bit v, write_word(addr, v)
\* stores the low byte at addr and the high byte at (addr+1) mod 65536, and
\* read_word(addr) right after it returns v.
C3_WordRoundTrip ==
    /\ Did("write_word") =>
          /\ Ok(cpu)
          /\ Load(cpu.bus.memory, Last.address) = Last.value % 256
          /\ Load(cpu.bus.memory, (Last.address + 1) % 65536) = Last.value \div 256
    /\ (DidAfter("write_word", "read_word") /\ Prev.address = Last.address) =>
          /\ Ok(cpu)
          /\ Last.ret = Prev.value

\* C4: every read_byte, write_byte, read_word and write_word, at any of the
\* 65536 addresses, completes normally.
C4_BusNeverFaults ==
    (Len(hist) >= 1 /\ Last.op \in {"read_byte", "write_byte", "read_word", "write_word"})
        => Ok(cpu)

----------------------------------------------------------------------------
(* Specification SpecStack: CPU::PUSH and CPU::POP from every kind of      *)
(* stack pointer.                                                          *)

MaxStackOps == 4

StackPointers == {0, 1, 2, 3, 256, 53248, 65534, 65535}
StackWords == {0, 1, 255, 256, 4660, 43981, 65535}

InitStack ==
    /\ \E sp \in StackPointers : cpu = [ResetCpu EXCEPT !.sp = sp]
    /\ gpu = ResetGpu
    /\ hist = <<>>

StackReady == Ok(cpu) /\ Len(hist) < MaxStackOps

DoPUSH ==
    /\ StackReady
    /\ \E value \in StackWords :
          /\ cpu' = PUSH(cpu, value)
          /\ hist' = Append(hist, [op |-> "PUSH", value |-> value, before |-> cpu])
    /\ UNCHANGED gpu

DoPOP ==
    /\ StackReady
    /\ LET r == POP(cpu) IN
          /\ cpu' = r.cpu
          /\ hist' = Append(hist, [op |-> "POP", ret |-> r.value, before |-> cpu])
    /\ UNCHANGED gpu

NextStack == DoPUSH \/ DoPOP

SpecStack == InitStack /\ [][NextStack]_vars

\* C5: for any 16-bit value v and any stack pointer sp, PUSH(v) completes
\* and the POP() right after it returns v and leaves the stack pointer at sp.
C5_PushPopRoundTrip ==
    /\ Did("PUSH") => Ok(cpu)
    /\ DidAfter("PUSH", "POP") =>
          /\ Ok(cpu)
          /\ Last.ret = Prev.value
          /\ cpu.sp = Prev.before.sp

----------------------------------------------------------------------------
(* Specification SpecJump: execute() on a relative jump, for every offset  *)
(* byte, every jump test and both values of the flags it reads.            *)

JumpPcs == {0, 1, 256, 32767, 65408, 65533, 65534, 65535}
JumpTests == {"NotZero", "Zero", "NotCarry", "Carry", "Always"}

InitJump ==
    /\ \E pc \in JumpPcs, offset \in U8, zero \in BOOLEAN, carry \in BOOLEAN :
          cpu = [ResetCpu EXCEPT
                    !.pc = pc,
                    !.registers.f.zero = zero,
                    !.registers.f.carry = carry,
                    !.bus.memory = Place(EmptyArray, pc, <<24, offset>>)]
    /\ gpu = ResetGpu
    /\ hist = <<>>

ExecuteJR ==
    /\ Ok(cpu)
    /\ hist = <<>>
    /\ \E test \in JumpTests :
          LET r == execute(cpu, Instr("JR", test)) IN
          /\ cpu' = r.cpu
          /\ hist' = <<[op |-> "execute", instruction |-> Instr("JR", test),
                        ret |-> r.value, before |-> cpu]>>
    /\ UNCHANGED gpu

NextJump == ExecuteJR

SpecJump == InitJump /\ [][NextJump]_vars

\* the jump test of the claim, read from the flags before the instruction
TestHolds(f, test) ==
    \/ test = "Always"
    \/ test = "NotZero" /\ ~f.zero
    \/ test = "Zero" /\ f.zero
    \/ test = "NotCarry" /\ ~f.carry
    \/ test = "Carry" /\ f.carry

SignedOffset(byte) == IF byte < 128 THEN byte ELSE byte - 256

\* C6: a JR executed at pc p with offset byte o at p+1 yields the next pc
\* (p + 2 + o) mod 65536, o sign-extended, when its test holds, and
\* (p + 2) mod 65536 when it does not.  (Stated for the executions that
\* complete; the claim demands it of all.)
C6_RelativeJumpTarget ==
    (Did("execute") /\ Last.instruction.tag = "JR" /\ Ok(cpu)) =>
        LET p == Last.before.pc
            o == SignedOffset(Load(Last.before.bus.memory, (p + 1) % 65536))
        IN  Last.ret = IF TestHolds(Last.before.registers.f, Last.instruction.arg)
                       THEN (p + 2 + o + 65536) % 65536
                       ELSE (p + 2) % 65536

----------------------------------------------------------------------------
(* Specification SpecAlu: the accumulator operations applied to every      *)
(* pair of accumulator and operand.                                        *)

InitAlu ==
    /\ \E a \in U8, f \in {NoFlags, AllFlags} :
          cpu = [ResetCpu EXCEPT !.registers.a = a, !.registers.f = f]
    /\ gpu = ResetGpu
    /\ hist = <<>>

DoADD ==
    /\ hist = <<>>
    /\ \E value \in U8 :
          LET r == ADD(cpu, value) IN
          /\ cpu' = r.cpu
          /\ hist' = <<[op |-> "ADD", value |-> value, ret |-> r.value, before |-> cpu]>>
    /\ UNCHANGED gpu

NextAlu == DoADD

SpecAlu == InitAlu /\ [][NextAlu]_vars

\* C7: ADD of operand b to accumulator a leaves A = (a+b) mod 256, zero iff
\* that is 0, subtract false, half-carry iff (a&0xF)+(b&0xF) > 0xF and
\* carry iff a+b > 255.
C7_AddFlags ==
    Did("ADD") =>
        LET a == Last.before.registers.a
            b == Last.value
        IN  /\ cpu.registers.a = (a + b) % 256
            /\ cpu.registers.f.zero = ((a + b) % 256 = 0)
            /\ cpu.registers.f.subtract = FALSE
            /\ cpu.registers.f.half_carry = ((a % 16) + (b % 16) > 15)
            /\ cpu.registers.f.carry = (a + b > 255)

\* 0x3A + 0xC6 = 0x100: zero, half-carry and carry all set at once
C7_Witness ==
    /\ Did("ADD")
    /\ Last.before.registers.a = 58
    /\ Last.value = 198
    /\ cpu.registers.a = 0
    /\ cpu.registers.f = [zero |-> TRUE, subtract |-> FALSE, half_carry |-> TRUE, carry |-> TRUE]

----------------------------------------------------------------------------
(* Specification SpecIncDec: execute() on INC and DEC of each 8-bit        *)
(* target, once or as a pair on the same target, from every value of the   *)
(* target and both values of the carry flag.                               *)

IncDecTargets == {"A", "B", "C", "D", "E", "H", "L", "HL"}

\* every register holds `value`; the byte at HL holds it too where the
\* array has that byte.  HL is the pair (value, value), or H or L alone
\* holds `value` beside a fixed partner.
InitIncDec ==
    /\ \E value \in U8, carry \in BOOLEAN, hl \in {"pair", "high", "low"} :
          LET h == IF hl = "low" THEN 192 ELSE value
              l == IF hl = "high" THEN 16 ELSE value
          IN  cpu = [ResetCpu EXCEPT
                        !.registers = [a |-> value, b |-> value, c |-> value, d |-> value,
                                       e |-> value, h |-> h, l |-> l,
                                       f |-> [NoFlags EXCEPT !.carry = carry]],
                        !.bus.memory = Place(EmptyArray, h * 256 + l, <<value>>)]
    /\ gpu = ResetGpu
    /\ hist = <<>>

ExecuteINC ==
    /\ Ok(cpu)
    /\ Len(hist) < 2
    /\ \E target \in IncDecTargets :
          /\ hist # <<>> => Last.instruction = Instr("DEC", target)
          /\ LET r == execute(cpu, Instr("INC", target)) IN
             /\ cpu' = r.cpu
             /\ hist' = Append(hist, [op |-> "execute", instruction |-> Instr("INC", target),
                                      ret |-> r.value, before |-> cpu])
    /\ UNCHANGED gpu

ExecuteDEC ==
    /\ Ok(cpu)
    /\ Len(hist) < 2
    /\ \E target \in IncDecTargets :
          /\ hist # <<>> => Last.instruction = Instr("INC", target)
          /\ LET r == execute(cpu, Instr("DEC", target)) IN
             /\ cpu' = r.cpu
             /\ hist' = Append(hist, [op |-> "execute", instruction |-> Instr("DEC", target),
                                      ret |-> r.value, before |-> cpu])
    /\ UNCHANGED gpu

NextIncDec == ExecuteINC \/ ExecuteDEC

SpecIncDec == InitIncDec /\ [][NextIncDec]_vars

\* the value of an INC/DEC target in machine m: a register or the byte at HL
\* (an address the array lacks holds nothing: -1)
TargetValue(m, target) ==
    IF target = "HL"
    THEN IF get_hl(m.registers) < MEM_SIZE
         THEN Load(m.bus.memory, get_hl(m.registers)) ELSE -1
    ELSE Reg8(m.registers, target)

\* C8: every INC and every DEC of an 8-bit target completes and leaves the
\* carry flag as it was; INC then DEC, and DEC then INC, on the same target
\* restore the target's value and leave the carry flag as before the pair.
C8_IncDecRoundTrip ==
    /\ (Did("execute") /\ Last.instruction.tag \in {"INC", "DEC"}) =>
          /\ Ok(cpu)
          /\ cpu.registers.f.carry = Last.before.registers.f.carry
    /\ (Len(hist) = 2 /\ Last.instruction.tag \in {"INC", "DEC"}
                      /\ Prev.instruction.tag \in {"INC", "DEC"}) =>
          /\ Ok(cpu)
          /\ TargetValue(cpu, Last.instruction.arg)
                = TargetValue(Prev.before, Last.instruction.arg)
          /\ cpu.registers.f.carry = Prev.before.registers.f.carry

\* the same, for the executions whose byte at HL is in the array
C8_HoldsInsideTheArray ==
    (Did("execute") /\ Last.instruction.tag \in {"INC", "DEC"}
        /\ ~(Last.instruction.arg = "HL" /\ get_hl(hist[1].before.registers) >= MEM_SIZE)) =>
        /\ Ok(cpu)
        /\ cpu.registers.f.carry = hist[1].before.registers.f.carry
        /\ Len(hist) = 2 =>
              TargetValue(cpu, Last.instruction.arg)
                 = TargetValue(hist[1].before, Last.instruction.arg)

----------------------------------------------------------------------------
(* Specification SpecGpu: sequences of write_vram calls from zeroed VRAM   *)
(* and an all-Zero tile set.                                               *)

MaxWrites == 3

\* both bytes of the first row, a byte of the second tile, the last byte of
\* the tile data, the first byte after it and the first index past VRAM
VramIndexes == {0, 1, 17, 6143, 6144, 8192}
VramValues == {0, 128, 192, 53}

InitGpu ==
    /\ cpu = ResetCpu
    /\ gpu = ResetGpu
    /\ hist = <<>>

WriteVram ==
    /\ Ok(gpu)
    /\ Len(hist) < MaxWrites
    /\ \E index \in VramIndexes, value \in VramValues :
          /\ gpu' = write_vram(gpu, index, value)
          /\ hist' = Append(hist, [op |-> "write_vram", index |-> index, value |-> value,
                                   before |-> gpu])
    /\ UNCHANGED cpu

NextGpu == WriteVram

SpecGpu == InitGpu /\ [][NextGpu]_vars

\* bit k of a byte; the TilePixelValue whose number (discriminant) is n, and
\* the number of a TilePixelValue
BitOf(byte, k) == (byte \div (2 ^ k)) % 2
PixelOf(n) == TilePixelValue[n + 1]
PixelNumber(value) == CHOOSE n \in 0..3 : PixelOf(n) = value

\* row r of tile t holds, in each column c, 2*bit(7-c) of vram[16t+2r+1]
\* + bit(7-c) of vram[16t+2r]
RowCoherent(g, t, r) ==
    LET row == TileRow(g.tile_set, t, r)
        low == Load(g.vram, 16 * t + 2 * r)
        high == Load(g.vram, 16 * t + 2 * r + 1)
    IN  \A c \in 0..7 : row[c] = PixelOf(2 * BitOf(high, 7 - c) + BitOf(low, 7 - c))

\* the rows that hold anything: a row of the tile set that is not all Zero,
\* or a row whose bytes in VRAM are not both 0.  Every other row of the
\* 384 x 8 is all Zero over two zero bytes, which is coherent.
RowsInUse(g) ==
    DOMAIN g.tile_set
        \cup {<<n \div 16, (n % 16) \div 2>> : n \in {i \in DOMAIN g.vram : i < TILE_DATA_SIZE}}

\* C9: after any sequence of write_vram calls the tile set is coherent with
\* VRAM: for every tile t in 0..383, row r and column c, tile_set[t][r][c]
\* = 2*bit(7-c) of vram[16t+2r+1] + bit(7-c) of vram[16t+2r].
C9_TileSetCoherent ==
    /\ \A key \in RowsInUse(gpu) :
          key[1] \in 0..(TILE_COUNT - 1) /\ key[2] \in 0..7 /\ RowCoherent(gpu, key[1], key[2])
    /\ \A t \in {0, TILE_COUNT - 1}, r \in 0..7 : RowCoherent(gpu, t, r)

\* the odd byte of row 0 was written last, over an even byte already there,
\* and the row shows both
C9_Witness ==
    /\ Len(hist) >= 2
    /\ Prev.index = 0 /\ Prev.value = 192
    /\ Last.index = 1 /\ Last.value = 128
    /\ TileRow(gpu.tile_set, 0, 0) =
          [c \in 0..7 |-> IF c = 0 THEN "Three" ELSE IF c = 1 THEN "One" ELSE "Zero"]

----------------------------------------------------------------------------
(* Specification SpecTileRow: one write_vram into a row whose other byte   *)
(* was written before, for every value written and both bytes of the pair. *)

PartnerBytes == {0, 1, 15, 53, 85, 128, 170, 192, 240, 255}
RowOffsets == {0, 18, 6142}      \* even offsets of rows in the tile data

InitTileRow ==
    /\ cpu = ResetCpu
    /\ \E even \in RowOffsets, odd_first \in BOOLEAN, partner \in PartnerBytes :
          /\ gpu = write_vram(ResetGpu, IF odd_first THEN even + 1 ELSE even, partner)
          /\ hist = <<[op |-> "write_vram", index |-> IF odd_first THEN even + 1 ELSE even,
                       value |-> partner, before |-> ResetGpu]>>

WriteOtherByte ==
    /\ Ok(gpu)
    /\ Len(hist) = 1
    /\ \E value \in U8 :
          LET index == IF Last.index % 2 = 1 THEN Last.index - 1 ELSE Last.index + 1 IN
          /\ gpu' = write_vram(gpu, index, value)
          /\ hist' = Append(hist, [op |-> "write_vram", index |-> index, value |-> value,
                                   before |-> gpu])
    /\ UNCHANGED cpu

NextTileRow == WriteOtherByte

SpecTileRow == InitTileRow /\ [][NextTileRow]_vars

\* C10: a write_vram to offset n in the tile data, even or odd, leaves row
\* (n/16, (n%16)/2) with, in column c, the 2-bit value whose high bit is
\* bit (7-c) of the byte at the odd offset of the pair and whose low bit is
\* bit (7-c) of the byte at the even offset; low byte 0b11000000 with high
\* byte 0b10000000 gives [3,1,0,0,0,0,0,0].
C10_RowDecoded ==
    (Did("write_vram") /\ Last.index < TILE_DATA_SIZE) =>
        LET n == Last.index
            even == n - (n % 2)
            low == Load(gpu.vram, even)
            high == Load(gpu.vram, even + 1)
            row == TileRow(gpu.tile_set, n \div 16, (n % 16) \div 2)
        IN  /\ Load(gpu.vram, n) = Last.value
            /\ \A c \in 0..7 :
                  PixelNumber(row[c]) = 2 * BitOf(high, 7 - c) + BitOf(low, 7 - c)
            /\ (low = 192 /\ high = 128) =>
                  [c \in 0..7 |-> PixelNumber(row[c])]
                     = [c \in 0..7 |-> IF c = 0 THEN 3 ELSE IF c = 1 THEN 1 ELSE 0]

\* the example of the claim, its high byte written last at an odd offset
C10_Witness ==
    /\ Len(hist) = 2
    /\ Prev.index = 18 /\ Prev.value = 192
    /\ Last.index = 19 /\ Last.value = 128
    /\ TileRow(gpu.tile_set, 1, 1) =
          [c \in 0..7 |-> IF c = 0 THEN "Three" ELSE IF c = 1 THEN "One" ELSE "Zero"]

----------------------------------------------------------------------------
(* Specification SpecBit: execute() on BIT of each bit of each 8-bit       *)
(* target, from every value of the target, and on BIT, RES and SET with a  *)
(* bit number past the width of a byte, in a build with and in a build     *)
(* without overflow checks.                                                *)

BitIndexes == 0..7

\* bit numbers whose shift overflows
PastTheWidth == {8, 9}

\* as InitIncDec lays the value out; the flags start all clear or all set
InitBit ==
    /\ \E value \in U8, f \in {NoFlags, AllFlags}, hl \in {"pair", "high", "low"},
          checks \in BOOLEAN :
          LET h == IF hl = "low" THEN 192 ELSE value
              l == IF hl = "high" THEN 16 ELSE value
          IN  cpu = [ResetCpu EXCEPT
                        !.registers = [a |-> value, b |-> value, c |-> value, d |-> value,
                                       e |-> value, h |-> h, l |-> l, f |-> f],
                        !.pc = 256,
                        !.bus.memory = Place(EmptyArray, h * 256 + l, <<value>>),
                        !.overflow_checks = checks]
    /\ gpu = ResetGpu
    /\ hist = <<>>

ExecuteBIT ==
    /\ hist = <<>>
    /\ \E bit \in BitIndexes, target \in IncDecTargets :
          LET instruction == Instr("BIT", [bit |-> bit, target |-> target])
              r == execute(cpu, instruction)
          IN  /\ cpu' = r.cpu
              /\ hist' = <<[op |-> "execute", instruction |-> instruction,
                            ret |-> r.value, before |-> cpu]>>
    /\ UNCHANGED gpu

ExecutePastTheWidth ==
    /\ hist = <<>>
    /\ \E tag \in {"BIT", "RES", "SET"}, bit \in PastTheWidth, target \in IncDecTargets :
          LET instruction == Instr(tag, [bit |-> bit, target |-> target])
              r == execute(cpu, instruction)
          IN  /\ cpu' = r.cpu
              /\ hist' = <<[op |-> "execute", instruction |-> instruction,
                            ret |-> r.value, before |-> cpu]>>
    /\ UNCHANGED gpu

NextBit == ExecuteBIT \/ ExecutePastTheWidth

SpecBit == InitBit /\ [][NextBit]_vars

\* what C12 says of a BIT of bit i of byte x executed from machine `before`
BitTested(before, i, x) ==
    /\ Ok(cpu)
    /\ cpu.registers.f.zero = ((x \div Pow2(i)) % 2 = 0)
    /\ cpu.registers.f.subtract = FALSE
    /\ cpu.registers.f.half_carry = TRUE
    /\ cpu.registers.f.carry = before.registers.f.carry
    /\ [cpu.registers EXCEPT !.f = before.registers.f] = before.registers
    /\ cpu.bus = before.bus

\* C12: BIT(i, x), x a register or the byte at HL, sets zero iff bit i of x
\* is clear, subtract = false, half-carry = true, and leaves the carry flag,
\* every register and every memory byte as they were.
C12_BitTestsAndKeeps ==
    (Did("execute") /\ Last.instruction.tag = "BIT"
        /\ Last.instruction.arg.bit \in BitIndexes) =>
        LET target == Last.instruction.arg.target
            x == IF target = "HL"
                 THEN Load(Last.before.bus.memory, get_hl(Last.before.registers))
                 ELSE Reg8(Last.before.registers, target)
        IN  BitTested(Last.before, Last.instruction.arg.bit, x)

\* the same, for the executions whose byte at HL is in the array
C12_HoldsInsideTheArray ==
    (Did("execute") /\ Last.instruction.tag = "BIT"
        /\ Last.instruction.arg.bit \in BitIndexes
        /\ TargetValue(Last.before, Last.instruction.arg.target) # -1) =>
        BitTested(Last.before, Last.instruction.arg.bit,
                  TargetValue(Last.before, Last.instruction.arg.target))

\* a bit number past the width, on a target inside the array: the build
\* with overflow checks panics and changes nothing; the build without them
\* acts on bit (number mod 8)
ShiftPastTheWidth ==
    (Did("execute") /\ Last.instruction.arg.bit \in PastTheWidth
        /\ TargetValue(Last.before, Last.instruction.arg.target) # -1) =>
        LET tag == Last.instruction.tag
            target == Last.instruction.arg.target
            x == TargetValue(Last.before, target)
            one == Pow2(Last.instruction.arg.bit % 8)
            has == (x \div one) % 2 = 1
        IN  IF Last.before.overflow_checks
            THEN cpu = Fault(Last.before, ShiftOverflow)
            ELSE /\ Ok(cpu)
                 /\ Last.ret = wrapping_add(Last.before.pc, 2)
                 /\ tag = "BIT" => BitTested(Last.before, Last.instruction.arg.bit % 8, x)
                 /\ tag = "RES" =>
                       TargetValue(cpu, target) = IF has THEN x - one ELSE x
                 /\ tag = "SET" =>
                       TargetValue(cpu, target) = IF has THEN x ELSE x + one

----------------------------------------------------------------------------
(* Specification SpecLength: execute() on every instruction form that is   *)
(* not a jump, at program counters in the middle and at the end of the     *)
(* address range.                                                          *)

LengthPcs == {0, 256, 65532, 65533, 65534, 65535}

ArithmeticTags == {"ADD", "ADC", "SUB", "SBC", "AND", "OR", "XOR", "CP"}

\* every form of an instruction other than JP, JR and JPHL whose operand
\* execute() accepts: the 239 such values of enum Instruction, and the
\* forms of the BIT, RES and SET arms of execute() with a bit number 0..7
NonJumpForms ==
    {Instr("LD", Byte(target, source)) :
        target \in Registers8 \cup {"BC", "DE", "HL"},
        source \in Registers8 \cup {"BC", "DE", "HL", "N8"}}
    \cup {Instr("LD", Word(target, source)) :
            target \in {"BC", "DE", "HL", "SP", "A16"}, source \in {"N16", "SP"}}
    \cup {Instr("LD", AddressIncDec("A", "HL", mode)) : mode \in {"Inc", "Dec"}}
    \cup {Instr("LD", AddressIncDec("HL", "A", mode)) : mode \in {"Inc", "Dec"}}
    \cup {Instr(tag, target) :
            tag \in {"PUSH", "POP"}, target \in {"BC", "DE", "HL", "AF"}}
    \cup {Instr(tag, target) :
            tag \in ArithmeticTags, target \in Registers8 \cup {"HL", "N8"}}
    \cup {Instr(tag, target) : tag \in {"INC", "DEC"}, target \in IncDecTargets}
    \cup {Instr(tag, target) :
            tag \in {"ADDHL", "INC16", "DEC16"}, target \in {"BC", "DE", "HL", "SP"}}
    \cup {Instr(tag, 0) : tag \in {"RLCA", "RRCA", "RLA", "RRA", "CPL", "SCF", "CCF"}}
    \cup {Instr(tag, [bit |-> bit, target |-> target]) :
            tag \in {"BIT", "RES", "SET"}, bit \in BitIndexes, target \in IncDecTargets}

\* the three bytes after pc hold 0x00, 0x10, 0xC0 (where the array has
\* them): the 8-bit immediate at pc+1 is 0x00, the 16-bit immediate there
\* is 0x1000, an address in the array
InitLength ==
    /\ \E pc \in LengthPcs, f \in {NoFlags, AllFlags} :
          cpu = [ResetCpu EXCEPT
                    !.registers = [StepRegisters EXCEPT !.f = f],
                    !.pc = pc,
                    !.sp = 53248,
                    !.bus.memory = Place(EmptyArray, pc, <<62, 0, 16, 192>>)]
    /\ gpu = ResetGpu
    /\ hist = <<>>

ExecuteForm ==
    /\ hist = <<>>
    /\ \E instruction \in NonJumpForms :
          LET r == execute(cpu, instruction) IN
          /\ cpu' = r.cpu
          /\ hist' = <<[op |-> "execute", instruction |-> instruction,
                        ret |-> r.value, before |-> cpu]>>
    /\ UNCHANGED gpu

NextLength == ExecuteForm

SpecLength == InitLength /\ [][NextLength]_vars

\* the encoded length of a form: 3 with a 16-bit immediate or an absolute
\* address, 2 with an 8-bit immediate or from the extended table, else 1
EncodedLength(instruction) ==
    LET tag == instruction.tag
        arg == instruction.arg
    IN  IF tag \in {"BIT", "RES", "SET"} THEN 2
        ELSE IF tag = "LD" /\ arg.load_type = "Word"
                /\ (arg.source = "N16" \/ arg.target = "A16") THEN 3
        ELSE IF tag = "LD" /\ arg.load_type = "Byte" /\ arg.source = "N8" THEN 2
        ELSE IF tag \in ArithmeticTags /\ arg = "N8" THEN 2
        ELSE 1

\* C13: executing an instruction that is not a jump at program counter p
\* completes and gives (p + L) mod 65536 as the pc to store, L being the
\* encoded length of the instruction.
C13_PcAdvancesByLength ==
    (Did("execute") /\ Last.instruction \in NonJumpForms) =>
        /\ Ok(cpu)
        /\ Last.ret = (Last.before.pc + EncodedLength(Last.instruction)) % 65536

\* the word load with both an immediate word and an absolute address: a
\* form no table entry has, which execute() accepts
TwoWordLoad == Instr("LD", Word("A16", "N16"))

\* the bytes execute() passes over: the opcode and every immediate byte it
\* fetches
BytesPassed(instruction) ==
    IF instruction = TwoWordLoad THEN 5 ELSE EncodedLength(instruction)

\* the same, for the executions that complete, of every form but the load
\* with two immediate words
C13_HoldsInsideTheArray ==
    (Did("execute") /\ Last.instruction \in NonJumpForms \ {TwoWordLoad} /\ Ok(cpu)) =>
        Last.ret = (Last.before.pc + EncodedLength(Last.instruction)) % 65536

\* the load with two immediate words fetches both and gives pc + 5
C13_TwoWordLoadAdvancesByFive ==
    (Did("execute") /\ Last.instruction = TwoWordLoad /\ Ok(cpu)) =>
        /\ EncodedLength(Last.instruction) = 3
        /\ Last.ret = (Last.before.pc + 5) % 65536

\* the executions of SpecLength that do not complete are those that read
\* an immediate byte at 0xFFFF
C13_OnlyTheLastByteFaults ==
    (Did("execute") /\ Last.instruction \in NonJumpForms /\ ~Ok(cpu)) =>
        /\ cpu.panic = OutOfBounds
        /\ BytesPassed(Last.instruction) > 1
        /\ Last.before.pc \in (65536 - BytesPassed(Last.instruction)) .. 65534

----------------------------------------------------------------------------
(* Specification SpecCompare: SUB and CP applied to every pair of          *)
(* accumulator and operand.                                                *)

DoSUB ==
    /\ hist = <<>>
    /\ \E value \in U8 :
          LET r == SUB(cpu, value) IN
          /\ cpu' = r.cpu
          /\ hist' = <<[op |-> "SUB", value |-> value, ret |-> r.value, before |-> cpu]>>
    /\ UNCHANGED gpu

DoCP ==
    /\ hist = <<>>
    /\ \E value \in U8 :
          LET r == CP(cpu, value) IN
          /\ cpu' = r.cpu
          /\ hist' = <<[op |-> "CP", value |-> value, ret |-> r.value, before |-> cpu]>>
    /\ UNCHANGED gpu

NextCompare == DoSUB \/ DoCP

SpecCompare == InitAlu /\ [][NextCompare]_vars

\* the flags of a subtraction of v from a
SubFlags(a, v) ==
    [zero |-> a = v, subtract |-> TRUE, half_carry |-> (a % 16) < (v % 16), carry |-> a < v]

\* C14: from accumulator a and operand v, CP and SUB both leave the flags
\* zero iff a = v, subtract, half-carry iff (a&0xF) < (v&0xF), carry iff
\* a < v; CP leaves A = a (and every other register), SUB leaves
\* A = (a - v) mod 256.
C14_CompareIsSubWithoutResult ==
    /\ Did("CP") =>
          /\ cpu.registers.f = SubFlags(Last.before.registers.a, Last.value)
          /\ [cpu EXCEPT !.registers.f = Last.before.registers.f] = Last.before
    /\ Did("SUB") =>
          /\ cpu.registers.f = SubFlags(Last.before.registers.a, Last.value)
          /\ cpu.registers.a = (Last.before.registers.a - Last.value) % 256
          /\ cpu = [CP(Last.before, Last.value).cpu EXCEPT !.registers.a = cpu.registers.a]

\* CP(0x20) with A = 0x10: carry (a < v) without half-carry, A kept
C14_Witness ==
    /\ Did("CP")
    /\ Last.before.registers.a = 16
    /\ Last.value = 32
    /\ cpu.registers.a = 16
    /\ cpu.registers.f = [zero |-> FALSE, subtract |-> TRUE, half_carry |-> FALSE, carry |-> TRUE]

----------------------------------------------------------------------------
(* Specification SpecCarry: ADC and SBC applied to every pair of           *)
(* accumulator and operand, with the carry flag clear and set.             *)

DoADC ==
    /\ hist = <<>>
    /\ \E value \in U8 :
          LET r == ADC(cpu, value) IN
          /\ cpu' = r.cpu
          /\ hist' = <<[op |-> "ADC", value |-> value, ret |-> r.value, before |-> cpu]>>
    /\ UNCHANGED gpu

DoSBC ==
    /\ hist = <<>>
    /\ \E value \in U8 :
          LET r == SBC(cpu, value) IN
          /\ cpu' = r.cpu
          /\ hist' = <<[op |-> "SBC", value |-> value, ret |-> r.value, before |-> cpu]>>
    /\ UNCHANGED gpu

NextCarry == DoADC \/ DoSBC

SpecCarry == InitAlu /\ [][NextCarry]_vars

\* the carry flag of machine m as a number
CarryIn(m) == IF m.registers.f.carry THEN 1 ELSE 0

\* C15: ADC of operand v to accumulator a with carry-in c leaves
\* A = (a+v+c) mod 256, zero iff that is 0, subtract false, half-carry iff
\* (a&0xF)+(v&0xF)+c > 0xF and carry iff a+v+c > 255.
C15_AdcFlags ==
    Did("ADC") =>
        LET a == Last.before.registers.a
            v == Last.value
            c == CarryIn(Last.before)
        IN  /\ cpu.registers.a = (a + v + c) % 256
            /\ cpu.registers.f.zero = ((a + v + c) % 256 = 0)
            /\ cpu.registers.f.subtract = FALSE
            /\ cpu.registers.f.half_carry = ((a % 16) + (v % 16) + c > 15)
            /\ cpu.registers.f.carry = (a + v + c > 255)

\* 0xFF + 0x00 + 1 = 0x100: the carry comes from adding the carry-in
C15_Witness ==
    /\ Did("ADC")
    /\ Last.before.registers.a = 255
    /\ Last.value = 0
    /\ Last.before.registers.f.carry
    /\ cpu.registers.a = 0
    /\ cpu.registers.f = [zero |-> TRUE, subtract |-> FALSE, half_carry |-> TRUE, carry |-> TRUE]

\* C16: SBC of operand v from accumulator a with carry-in c leaves
\* A = (a-v-c) mod 256, zero iff that is 0, subtract true, half-carry iff
\* (a&0xF) < (v&0xF)+c and carry iff a < v+c (v = 0xFF with c = 1 included).
C16_SbcFlags ==
    Did("SBC") =>
        LET a == Last.before.registers.a
            v == Last.value
            c == CarryIn(Last.before)
        IN  /\ cpu.registers.a = (a - v - c) % 256
            /\ cpu.registers.f.zero = ((a - v - c) % 256 = 0)
            /\ cpu.registers.f.subtract = TRUE
            /\ cpu.registers.f.half_carry = ((a % 16) < (v % 16) + c)
            /\ cpu.registers.f.carry = (a < v + c)

\* 0x00 - 0xFF - 1 = -0x100: result 0 with both borrows
C16_Witness ==
    /\ Did("SBC")
    /\ Last.before.registers.a = 0
    /\ Last.value = 255
    /\ Last.before.registers.f.carry
    /\ cpu.registers.a = 0
    /\ cpu.registers.f = [zero |-> TRUE, subtract |-> TRUE, half_carry |-> TRUE, carry |-> TRUE]

----------------------------------------------------------------------------
(* Specification SpecLogic: AND, OR and XOR applied to every pair of       *)
(* accumulator and operand.                                                *)

DoAND ==
    /\ hist = <<>>
    /\ \E value \in U8 :
          LET r == AND(cpu, value) IN
          /\ cpu' = r.cpu
          /\ hist' = <<[op |-> "AND", value |-> value, ret |-> r.value, before |-> cpu]>>
    /\ UNCHANGED gpu

DoOR ==
    /\ hist = <<>>
    /\ \E value \in U8 :
          LET r == OR(cpu, value) IN
          /\ cpu' = r.cpu
          /\ hist' = <<[op |-> "OR", value |-> value, ret |-> r.value, before |-> cpu]>>
    /\ UNCHANGED gpu

DoXOR ==
    /\ hist = <<>>
    /\ \E value \in U8 :
          LET r == XOR(cpu, value) IN
          /\ cpu' = r.cpu
          /\ hist' = <<[op |-> "XOR", value |-> value, ret |-> r.value, before |-> cpu]>>
    /\ UNCHANGED gpu

NextLogic == DoAND \/ DoOR \/ DoXOR

SpecLogic == InitAlu /\ [][NextLogic]_vars

\* bit k of the result of logic operation op on bits x and y
LogicBit(op, x, y) ==
    CASE op = "AND" -> IF x = 1 /\ y = 1 THEN 1 ELSE 0
      [] op = "OR"  -> IF x = 1 \/ y = 1 THEN 1 ELSE 0
      [] op = "XOR" -> IF x # y THEN 1 ELSE 0

\* C18: AND, OR and XOR leave in A the bitwise result, zero iff it is 0,
\* subtract and carry false, half-carry true after AND and false after OR
\* and XOR, whatever the operands and the flags before.
C18_LogicFlags ==
    (Len(hist) >= 1 /\ Last.op \in {"AND", "OR", "XOR"}) =>
        /\ cpu.registers.a \in U8
        /\ \A k \in 0..7 :
              BitOf(cpu.registers.a, k)
                 = LogicBit(Last.op, BitOf(Last.before.registers.a, k), BitOf(Last.value, k))
        /\ cpu.registers.f.zero = (cpu.registers.a = 0)
        /\ cpu.registers.f.subtract = FALSE
        /\ cpu.registers.f.carry = FALSE
        /\ cpu.registers.f.half_carry = (Last.op = "AND")

\* 0xF0 AND 0x0F = 0 from flags all set: zero and half-carry stay set,
\* subtract and carry are cleared
C18_Witness ==
    /\ Did("AND")
    /\ Last.before.registers.a = 240
    /\ Last.value = 15
    /\ Last.before.registers.f = AllFlags
    /\ cpu.registers.a = 0
    /\ cpu.registers.f = [zero |-> TRUE, subtract |-> FALSE, half_carry |-> TRUE, carry |-> FALSE]

----------------------------------------------------------------------------
(* Specification SpecAddHL: execute() on ADDHL of each 16-bit operand,     *)
(* with HL and the operand around the carries out of bits 7, 11 and 15.    *)

AddHighs == {0, 7, 8, 15, 16, 127, 128, 240, 255}
AddLows == {0, 1, 255}
AddWords == {high * 256 + low : high \in AddHighs, low \in AddLows}

\* HL holds h; one of BC, DE, sp holds w and the other two hold fixed words
InitAddHL ==
    /\ \E h \in AddWords, w \in AddWords, operand \in {"BC", "DE", "SP"},
          f \in {NoFlags, AllFlags} :
          LET bc == IF operand = "BC" THEN w ELSE 4660
              de == IF operand = "DE" THEN w ELSE 22136
              sp == IF operand = "SP" THEN w ELSE 39612
          IN  cpu = [ResetCpu EXCEPT
                        !.registers = [a |-> 18, b |-> bc \div 256, c |-> bc % 256,
                                       d |-> de \div 256, e |-> de % 256,
                                       h |-> h \div 256, l |-> h % 256, f |-> f],
                        !.pc = 256,
                        !.sp = sp]
    /\ gpu = ResetGpu
    /\ hist = <<>>

ExecuteADDHL ==
    /\ hist = <<>>
    /\ \E target \in {"BC", "DE", "HL", "SP"} :
          LET r == execute(cpu, Instr("ADDHL", target)) IN
          /\ cpu' = r.cpu
          /\ hist' = <<[op |-> "execute", instruction |-> Instr("ADDHL", target),
                        ret |-> r.value, before |-> cpu]>>
    /\ UNCHANGED gpu

NextAddHL == ExecuteADDHL

SpecAddHL == InitAddHL /\ [][NextAddHL]_vars

\* the 16-bit operand `target` names in machine m
PairValue(m, target) ==
    CASE target = "BC" -> m.registers.b * 256 + m.registers.c
      [] target = "DE" -> m.registers.d * 256 + m.registers.e
      [] target = "HL" -> m.registers.h * 256 + m.registers.l
      [] target = "SP" -> m.sp

\* C17: ADDHL of operand w (BC, DE, HL or sp) with HL = h leaves
\* HL = (h+w) mod 65536 (2h mod 65536 when the operand is HL), the zero flag
\* as it was, subtract false, half-carry iff (h&0xFFF)+(w&0xFFF) > 0xFFF and
\* carry iff h+w > 65535.
C17_AddHLFlags ==
    (Did("execute") /\ Last.instruction.tag = "ADDHL") =>
        LET h == PairValue(Last.before, "HL")
            w == PairValue(Last.before, Last.instruction.arg)
        IN  /\ Ok(cpu)
            /\ PairValue(cpu, "HL") = (h + w) % 65536
            /\ Last.instruction.arg = "HL" => PairValue(cpu, "HL") = (2 * h) % 65536
            /\ cpu.registers.f.zero = Last.before.registers.f.zero
            /\ cpu.registers.f.subtract = FALSE
            /\ cpu.registers.f.half_carry = ((h % 4096) + (w % 4096) > 4095)
            /\ cpu.registers.f.carry = (h + w > 65535)

\* 0x0FFF + 0x0001 in BC: carry out of bit 11 only, the zero flag stays set
\* although the sum is not 0
C17_Witness ==
    /\ Did("execute")
    /\ Last.instruction = Instr("ADDHL", "BC")
    /\ PairValue(Last.before, "HL") = 4095
    /\ PairValue(Last.before, "BC") = 1
    /\ Last.before.registers.f = AllFlags
    /\ PairValue(cpu, "HL") = 4096
    /\ cpu.registers.f = [zero |-> TRUE, subtract |-> FALSE, half_carry |-> TRUE, carry |-> FALSE]

----------------------------------------------------------------------------
(* Specification SpecJumpAbs: execute() on an absolute jump, for every     *)
(* jump test and both values of the flags it reads, and on JPHL.           *)

JumpAbsPcs == {0, 256, 65532, 65533, 65534, 65535}
ImmediateBytes == {0, 52, 255}
JumpHLs == {0, 49168, 65535}

InitJumpAbs ==
    /\ \E pc \in JumpAbsPcs, low \in ImmediateBytes, high \in ImmediateBytes,
          zero \in BOOLEAN, carry \in BOOLEAN, hl \in JumpHLs :
          cpu = [ResetCpu EXCEPT
                    !.registers = [StepRegisters EXCEPT
                                      !.h = hl \div 256, !.l = hl % 256,
                                      !.f.zero = zero, !.f.carry = carry],
                    !.pc = pc,
                    !.sp = 53248,
                    !.bus.memory = Place(EmptyArray, pc, <<195, low, high>>)]
    /\ gpu = ResetGpu
    /\ hist = <<>>

ExecuteJP ==
    /\ hist = <<>>
    /\ \E test \in JumpTests :
          LET r == execute(cpu, Instr("JP", test)) IN
          /\ cpu' = r.cpu
          /\ hist' = <<[op |-> "execute", instruction |-> Instr("JP", test),
                        ret |-> r.value, before |-> cpu]>>
    /\ UNCHANGED gpu

ExecuteJPHL ==
    /\ hist = <<>>
    /\ LET r == execute(cpu, Instr("JPHL", 0)) IN
       /\ cpu' = r.cpu
       /\ hist' = <<[op |-> "execute", instruction |-> Instr("JPHL", 0),
                     ret |-> r.value, before |-> cpu]>>
    /\ UNCHANGED gpu

NextJumpAbs == ExecuteJP \/ ExecuteJPHL

SpecJumpAbs == InitJumpAbs /\ [][NextJumpAbs]_vars

\* what C19 says of the jump in the last history entry
JumpedAsClaimed ==
    LET p == Last.before.pc
        low == Load(Last.before.bus.memory, (p + 1) % 65536)
        high == Load(Last.before.bus.memory, (p + 2) % 65536)
    IN  /\ Ok(cpu)
        /\ cpu = Last.before
        /\ Last.instruction.tag = "JP" =>
              Last.ret = IF TestHolds(Last.before.registers.f, Last.instruction.arg)
                         THEN low + 256 * high
                         ELSE (p + 3) % 65536
        /\ Last.instruction.tag = "JPHL" =>
              Last.ret = PairValue(Last.before, "HL")

\* C19: a JP executed at pc p gives as next pc the little-endian word at
\* p+1, p+2 when its test holds on the current flags and (p+3) mod 65536
\* when it does not; JPHL gives HL; neither changes a register, a flag or a
\* memory byte.
C19_AbsoluteJumpTarget ==
    (Did("execute") /\ Last.instruction.tag \in {"JP", "JPHL"}) => JumpedAsClaimed

\* the same, for the jumps whose immediate word is in the array or is not
\* read
C19_HoldsInsideTheArray ==
    (Did("execute") /\ Last.instruction.tag \in {"JP", "JPHL"}
        /\ ~(/\ Last.instruction.tag = "JP"
             /\ TestHolds(Last.before.registers.f, Last.instruction.arg)
             /\ Last.before.pc \in {65533, 65534})) => JumpedAsClaimed

----------------------------------------------------------------------------
(* Specification SpecLoad: execute() on every load form, from every        *)
(* setting of the flags, with HL and pc inside and at the end of memory.   *)

LoadPcs == {256, 65533, 65534}
LoadHLs == {0, 49168, 65535}
AllFlagSettings == [zero : BOOLEAN, subtract : BOOLEAN, half_carry : BOOLEAN, carry : BOOLEAN]

\* every value of LoadType, the AddressIncDec pairs execute() rejects included
LoadForms ==
    {Byte(target, source) :
        target \in Registers8 \cup {"BC", "DE", "HL"},
        source \in Registers8 \cup {"BC", "DE", "HL", "N8"}}
    \cup {Word(target, source) :
            target \in {"BC", "DE", "HL", "SP", "A16"}, source \in {"N16", "SP"}}
    \cup {AddressIncDec(target, source, mode) :
            target \in {"HL", "A"}, source \in {"HL", "A"}, mode \in {"Inc", "Dec"}}

\* the bytes after pc are 0x00, 0x10, 0xC0, 0x20, 0xC0; the byte at HL is
\* 0x77 (where the array has them)
InitLoad ==
    /\ \E pc \in LoadPcs, hl \in LoadHLs, a \in {0, 90}, f \in AllFlagSettings :
          cpu = [ResetCpu EXCEPT
                    !.registers = [StepRegisters EXCEPT
                                      !.a = a, !.h = hl \div 256, !.l = hl % 256, !.f = f],
                    !.pc = pc,
                    !.sp = 53248,
                    !.bus.memory = Place(Place(EmptyArray, hl, <<119>>),
                                         pc, <<62, 0, 16, 192, 32, 192>>)]
    /\ gpu = ResetGpu
    /\ hist = <<>>

ExecuteLD ==
    /\ hist = <<>>
    /\ \E load \in LoadForms :
          LET r == execute(cpu, Instr("LD", load)) IN
          /\ cpu' = r.cpu
          /\ hist' = <<[op |-> "execute", instruction |-> Instr("LD", load),
                        ret |-> r.value, before |-> cpu]>>
    /\ UNCHANGED gpu

NextLoad == ExecuteLD

SpecLoad == InitLoad /\ [][NextLoad]_vars

\* C20: no load (byte, word, or HL auto-increment/decrement), whatever its
\* source, its target and the machine state, changes any of the four flags.
C20_LoadsKeepFlags ==
    (Did("execute") /\ Last.instruction.tag = "LD") =>
        cpu.registers.f = Last.before.registers.f

\* LD A, n8 with the immediate 0x00 and the zero flag clear: A becomes 0 and
\* the zero flag stays clear
C20_Witness ==
    /\ Did("execute")
    /\ Last.instruction = Instr("LD", Byte("A", "N8"))
    /\ Last.before.registers.a = 90
    /\ Last.before.registers.f = NoFlags
    /\ Ok(cpu)
    /\ cpu.registers.a = 0
    /\ cpu.registers.f = NoFlags

----------------------------------------------------------------------------
(* Specification SpecIncDec16: execute() on INC16 and DEC16 of each 16-bit *)
(* operand, once or as a pair on the same operand.                         *)

WordOperands == {"BC", "DE", "HL", "SP"}

\* one of BC, DE, HL, sp holds x and the other three hold fixed words
InitIncDec16 ==
    /\ \E x \in AddWords, operand \in WordOperands, f \in {NoFlags, AllFlags} :
          LET bc == IF operand = "BC" THEN x ELSE 4660
              de == IF operand = "DE" THEN x ELSE 22136
              hl == IF operand = "HL" THEN x ELSE 49168
              sp == IF operand = "SP" THEN x ELSE 39612
          IN  cpu = [ResetCpu EXCEPT
                        !.registers = [a |-> 18, b |-> bc \div 256, c |-> bc % 256,
                                       d |-> de \div 256, e |-> de % 256,
                                       h |-> hl \div 256, l |-> hl % 256, f |-> f],
                        !.pc = 256,
                        !.sp = sp,
                        !.bus.memory = Place(EmptyArray, 49168, <<119, 136>>)]
    /\ gpu = ResetGpu
    /\ hist = <<>>

ExecuteINC16 ==
    /\ Ok(cpu)
    /\ Len(hist) < 2
    /\ \E target \in WordOperands :
          /\ hist # <<>> => Last.instruction = Instr("DEC16", target)
          /\ LET r == execute(cpu, Instr("INC16", target)) IN
             /\ cpu' = r.cpu
             /\ hist' = Append(hist, [op |-> "execute", instruction |-> Instr("INC16", target),
                                      ret |-> r.value, before |-> cpu])
    /\ UNCHANGED gpu

ExecuteDEC16 ==
    /\ Ok(cpu)
    /\ Len(hist) < 2
    /\ \E target \in WordOperands :
          /\ hist # <<>> => Last.instruction = Instr("INC16", target)
          /\ LET r == execute(cpu, Instr("DEC16", target)) IN
             /\ cpu' = r.cpu
             /\ hist' = Append(hist, [op |-> "execute", instruction |-> Instr("DEC16", target),
                                      ret |-> r.value, before |-> cpu])
    /\ UNCHANGED gpu

NextIncDec16 == ExecuteINC16 \/ ExecuteDEC16

SpecIncDec16 == InitIncDec16 /\ [][NextIncDec16]_vars

\* machine m with the 16-bit operand `target` set to `value`
WithPair(m, target, value) ==
    CASE target = "BC" -> [m EXCEPT !.registers.b = value \div 256, !.registers.c = value % 256]
      [] target = "DE" -> [m EXCEPT !.registers.d = value \div 256, !.registers.e = value % 256]
      [] target = "HL" -> [m EXCEPT !.registers.h = value \div 256, !.registers.l = value % 256]
      [] target = "SP" -> [m EXCEPT !.sp = value]

\* C21: INC16 and DEC16 of BC, DE, HL or sp holding x leave the operand at
\* (x+1) mod 65536 and (x-1) mod 65536, and the flags, every other register
\* and memory as they were; INC16 then DEC16 of the same operand restores
\* it.
C21_IncDec16 ==
    /\ (Did("execute") /\ Last.instruction.tag \in {"INC16", "DEC16"}) =>
          LET target == Last.instruction.arg
              x == PairValue(Last.before, target)
              y == IF Last.instruction.tag = "INC16" THEN (x + 1) % 65536
                                                     ELSE (x - 1) % 65536
          IN  /\ Ok(cpu)
              /\ PairValue(cpu, target) = y
              /\ cpu.registers.f = Last.before.registers.f
              /\ cpu = WithPair(Last.before, target, y)
    /\ (Len(hist) = 2 /\ Prev.instruction.tag = "INC16"
                      /\ Last.instruction.tag = "DEC16") =>
          cpu = Prev.before

\* INC16 of sp = 0xFFFF wraps to 0 and the flags, all clear, stay clear;
\* the DEC16 after it gives 0xFFFF back
C21_Witness ==
    /\ Len(hist) = 2
    /\ Prev.instruction = Instr("INC16", "SP")
    /\ Last.instruction = Instr("DEC16", "SP")
    /\ Prev.before.sp = 65535
    /\ Last.before.sp = 0
    /\ Last.before.registers.f = NoFlags
    /\ cpu.sp = 65535
    /\ cpu.registers.f = NoFlags

----------------------------------------------------------------------------
(* Specification SpecRotate: the four accumulator rotates applied to every *)
(* accumulator value from every setting of the flags.                      *)

InitRotate ==
    /\ \E a \in U8, f \in AllFlagSettings :
          cpu = [ResetCpu EXCEPT !.registers.a = a, !.registers.f = f]
    /\ gpu = ResetGpu
    /\ hist = <<>>

DoRLCA ==
    /\ hist = <<>>
    /\ cpu' = RLCA(cpu).cpu
    /\ hist' = <<[op |-> "RLCA", before |-> cpu]>>
    /\ UNCHANGED gpu

DoRRCA ==
    /\ hist = <<>>
    /\ cpu' = RRCA(cpu).cpu
    /\ hist' = <<[op |-> "RRCA", before |-> cpu]>>
    /\ UNCHANGED gpu

DoRLA ==
    /\ hist = <<>>
    /\ cpu' = RLA(cpu).cpu
    /\ hist' = <<[op |-> "RLA", before |-> cpu]>>
    /\ UNCHANGED gpu

DoRRA ==
    /\ hist = <<>>
    /\ cpu' = RRA(cpu).cpu
    /\ hist' = <<[op |-> "RRA", before |-> cpu]>>
    /\ UNCHANGED gpu

NextRotate == DoRLCA \/ DoRRCA \/ DoRLA \/ DoRRA

SpecRotate == InitRotate /\ [][NextRotate]_vars

\* the accumulator and the carry flag a rotate of the claim leaves, from
\* accumulator a and carry c (0 or 1)
Rotated(op, a, c) ==
    CASE op = "RLCA" -> [a |-> ((2 * a) % 256) + (a \div 128), carry |-> a \div 128 = 1]
      [] op = "RRCA" -> [a |-> (a \div 2) + 128 * (a % 2), carry |-> a % 2 = 1]
      [] op = "RLA"  -> [a |-> ((2 * a) % 256) + c, carry |-> a \div 128 = 1]
      [] op = "RRA"  -> [a |-> (a \div 2) + 128 * c, carry |-> a % 2 = 1]

\* C22: RLCA and RRCA rotate A circularly, RLA and RRA rotate it through the
\* carry flag; the carry becomes the bit rotated out (old bit 7 to the left,
\* old bit 0 to the right), subtract and half-carry are cleared, and the
\* zero flag and every other register stay as they were.
C22_AccumulatorRotates ==
    (Len(hist) >= 1 /\ Last.op \in {"RLCA", "RRCA", "RLA", "RRA"}) =>
        LET expected == Rotated(Last.op, Last.before.registers.a, CarryIn(Last.before))
        IN  /\ cpu.registers.a = expected.a
            /\ cpu.registers.f.carry = expected.carry
            /\ cpu.registers.f.subtract = FALSE
            /\ cpu.registers.f.half_carry = FALSE
            /\ cpu.registers.f.zero = Last.before.registers.f.zero
            /\ [cpu EXCEPT !.registers.a = Last.before.registers.a,
                           !.registers.f = Last.before.registers.f] = Last.before

\* RLA of 0x80 with the carry clear: A becomes 0, the carry is set and the
\* zero flag stays clear
C22_Witness ==
    /\ Did("RLA")
    /\ Last.before.registers.a = 128
    /\ Last.before.registers.f = NoFlags
    /\ cpu.registers.a = 0
    /\ cpu.registers.f = [zero |-> FALSE, subtract |-> FALSE, half_carry |-> FALSE, carry |-> TRUE]

----------------------------------------------------------------------------
(* The HL auto-increment/decrement loads, in SpecLoad.                     *)

\* the last history entry is one of the two AddressIncDec loads execute()
\* accepts
DidIncDecLoad ==
    /\ Did("execute")
    /\ Last.instruction.tag = "LD"
    /\ Last.instruction.arg.load_type = "AddressIncDec"
    /\ Last.instruction.arg.target # Last.instruction.arg.source

\* what C23 says of that load
TransferredThenMoved ==
    LET load == Last.instruction.arg
        before == Last.before
        hl == PairValue(before, "HL")
        new_hl == IF load.mode = "Inc" THEN (hl + 1) % 65536 ELSE (hl - 1) % 65536
        moved == WithPair(before, "HL", new_hl)
    IN  /\ Ok(cpu)
        /\ PairValue(cpu, "HL") = new_hl
        /\ Last.ret = (before.pc + 1) % 65536
        /\ load.target = "A" =>
              cpu = [moved EXCEPT !.registers.a = Load(before.bus.memory, hl)]
        /\ load.target = "HL" =>
              cpu = [moved EXCEPT !.bus.memory = Store(@, hl, before.registers.a)]

\* C23: an HL auto-increment/decrement load moves the byte between A and
\* the memory byte at the HL of before the instruction, then leaves
\* HL = (HL+1) mod 65536 (Inc) or (HL-1) mod 65536 (Dec), and gives pc+1.
C23_TransferAtOldHL ==
    DidIncDecLoad => TransferredThenMoved

\* the same, for the loads whose byte at HL is in the array
C23_HoldsInsideTheArray ==
    (DidIncDecLoad /\ PairValue(Last.before, "HL") < MEM_SIZE) => TransferredThenMoved

----------------------------------------------------------------------------
(* Specification SpecPopAF: execute() on POP of each pair from a stack     *)
(* whose top word has every low byte, and on the PUSH of the same pair     *)
(* after it.                                                               *)

StackTargets == {"BC", "DE", "HL", "AF"}
PopPointers == {0, 53248, 65534}
PopHighBytes == {0, 18, 255}

\* the word at sp is (high, low), where the array has both bytes
InitPopAF ==
    /\ \E sp \in PopPointers, low \in U8, high \in PopHighBytes, f \in {NoFlags, AllFlags} :
          cpu = [ResetCpu EXCEPT
                    !.registers = [StepRegisters EXCEPT !.f = f],
                    !.pc = 256,
                    !.sp = sp,
                    !.bus.memory = Place(EmptyArray, sp, <<low, high>>)]
    /\ gpu = ResetGpu
    /\ hist = <<>>

ExecutePOP ==
    /\ hist = <<>>
    /\ \E target \in StackTargets :
          LET r == execute(cpu, Instr("POP", target)) IN
          /\ cpu' = r.cpu
          /\ hist' = <<[op |-> "execute", instruction |-> Instr("POP", target),
                        ret |-> r.value, before |-> cpu]>>
    /\ UNCHANGED gpu

\* a PUSH as the first instruction, or of the pair just popped
ExecutePUSH ==
    /\ Ok(cpu)
    /\ Len(hist) < 2
    /\ \E target \in StackTargets :
          /\ hist # <<>> => Last.instruction = Instr("POP", target)
          /\ LET r == execute(cpu, Instr("PUSH", target)) IN
             /\ cpu' = r.cpu
             /\ hist' = Append(hist, [op |-> "execute", instruction |-> Instr("PUSH", target),
                                      ret |-> r.value, before |-> cpu])
    /\ UNCHANGED gpu

NextPopAF == ExecutePOP \/ ExecutePUSH

SpecPopAF == InitPopAF /\ [][NextPopAF]_vars

\* the word at address in memory, low byte first
WordAt(memory, address) ==
    Load(memory, address) + 256 * Load(memory, (address + 1) % 65536)

\* C24: in every state AF read as a word has a zero low nibble; after a POP
\* into AF of word w, AF reads w & 0xFFF0 and zero, subtract, half-carry,
\* carry are bits 7, 6, 5, 4 of w's low byte; a PUSH of AF after it writes
\* w & 0xFFF0 back.
C24_FlagsLowNibbleZero ==
    /\ get_af(cpu.registers) % 16 = 0
    /\ (Len(hist) >= 1 /\ hist[1].instruction = Instr("POP", "AF") /\ Ok(cpu)) =>
          LET w == WordAt(hist[1].before.bus.memory, hist[1].before.sp)
              low == w % 256
          IN  /\ get_af(cpu.registers) = w - (w % 16)
              /\ cpu.registers.a = w \div 256
              /\ cpu.registers.f = [zero |-> BitOf(low, 7) = 1, subtract |-> BitOf(low, 6) = 1,
                                    half_carry |-> BitOf(low, 5) = 1, carry |-> BitOf(low, 4) = 1]
              /\ Len(hist) = 2 => WordAt(cpu.bus.memory, cpu.sp) = w - (w % 16)

\* the word 0x123F popped into AF: AF reads 0x1230, half-carry and carry
\* are set, zero and subtract clear
C24_Witness ==
    /\ Did("execute")
    /\ Last.instruction = Instr("POP", "AF")
    /\ WordAt(Last.before.bus.memory, Last.before.sp) = 4671
    /\ Ok(cpu)
    /\ get_af(cpu.registers) = 4656
    /\ cpu.registers.f = [zero |-> FALSE, subtract |-> FALSE, half_carry |-> TRUE, carry |-> TRUE]

----------------------------------------------------------------------------
(* Specification SpecFrame: write_vram calls inside and outside the tile   *)
(* data, each followed by a read_vram.                                     *)

MaxFrameWrites == 2

\* two rows of tile 0, a row of tile 1, the end of the tile data, the
\* bytes after it up to the end of VRAM
FrameIndexes == {0, 1, 2, 17, 6143, 6144, 6145, 8191}
FrameValues == {0, 53, 255}

FrameWrite ==
    /\ Ok(gpu)
    /\ Len(hist) < MaxFrameWrites
    /\ hist # <<>> => Last.op = "write_vram"
    /\ \E index \in FrameIndexes, value \in FrameValues :
          /\ gpu' = write_vram(gpu, index, value)
          /\ hist' = Append(hist, [op |-> "write_vram", index |-> index, value |-> value,
                                   before |-> gpu])
    /\ UNCHANGED cpu

FrameRead ==
    /\ Ok(gpu)
    /\ Did("write_vram")
    /\ \E address \in FrameIndexes :
          LET r == read_vram(gpu, address) IN
          /\ gpu' = r.cpu
          /\ hist' = Append(hist, [op |-> "read_vram", address |-> address,
                                   ret |-> r.value, before |-> gpu])
    /\ UNCHANGED cpu

NextFrame == FrameWrite \/ FrameRead

SpecFrame == InitGpu /\ [][NextFrame]_vars

\* every row of the tile set of g other than row `key` is as in `before`
OtherRowsKept(g, before, key) ==
    \A k \in (DOMAIN g.tile_set \cup DOMAIN before.tile_set) \ {key} :
        TileRow(g.tile_set, k[1], k[2]) = TileRow(before.tile_set, k[1], k[2])

\* C25: a write_vram(n, value) within VRAM stores the byte and changes no
\* other byte; it changes no row of the tile set other than row (n%16)/2 of
\* tile n/16, and no row at all when n >= 0x1800; a read_vram(n) after it
\* returns value and changes nothing.
C25_WriteTouchesOneRow ==
    /\ (Did("write_vram") /\ Last.index < VRAM_SIZE) =>
          LET n == Last.index IN
          /\ Ok(gpu)
          /\ gpu.vram = Store(Last.before.vram, n, Last.value)
          /\ OtherRowsKept(gpu, Last.before, <<n \div 16, (n % 16) \div 2>>)
          /\ n >= TILE_DATA_SIZE => gpu.tile_set = Last.before.tile_set
    /\ Did("read_vram") =>
          /\ gpu = Last.before
          /\ Last.address = Prev.index => Last.ret = Prev.value

\* with row 1 of tile 0 decoded, a write of the first byte after the tile
\* data stores the byte and the row is still there
C25_Witness ==
    /\ Len(hist) = 2
    /\ Did("write_vram")
    /\ Last.index = 6144 /\ Last.value = 255
    /\ Prev.index = 2 /\ Prev.value = 53
    /\ TileRow(gpu.tile_set, 0, 1) # EmptyRow
    /\ Load(gpu.vram, 6144) = 255

----------------------------------------------------------------------------
(* The stack discipline, in SpecStack.                                     *)

\* the memory CPU::PUSH of `value` at stack pointer sp leaves: low byte at
\* sp-2, high byte at sp-1
Pushed(memory, sp, value) ==
    Store(Store(memory, (sp - 2) % 65536, value % 256), (sp - 1) % 65536, value \div 256)

\* what C26 says of the PUSH or POP of history entry i, whose result is
\* machine `after`
StackOpAsClaimed(i, after) ==
    LET entry == hist[i]
        before == entry.before
    IN  /\ Ok(after)
        /\ entry.op = "PUSH" =>
              after = [before EXCEPT !.sp = (before.sp - 2) % 65536,
                                     !.bus.memory = Pushed(@, before.sp, entry.value)]
        /\ entry.op = "POP" =>
              after = [before EXCEPT !.sp = (before.sp + 2) % 65536]

\* the history is PUSH(v1), PUSH(v2), POP, POP
PushedTwicePoppedTwice ==
    /\ Len(hist) = 4
    /\ hist[1].op = "PUSH" /\ hist[2].op = "PUSH"
    /\ hist[3].op = "POP" /\ hist[4].op = "POP"

\* C26: PUSH writes the value's low byte at sp-2 and its high byte at sp-1,
\* moves sp down by 2 and changes nothing else; POP moves sp up by 2 and
\* changes no memory; PUSH(v1), PUSH(v2), POP, POP returns v2, then v1, and
\* leaves sp where it was.
C26_StackIsLifo ==
    /\ Len(hist) >= 1 => StackOpAsClaimed(Len(hist), cpu)
    /\ PushedTwicePoppedTwice =>
          /\ hist[3].ret = hist[2].value
          /\ hist[4].ret = hist[1].value
          /\ cpu.sp = hist[1].before.sp

\* the same, for the operations whose two bytes are in the array
C26_HoldsInsideTheArray ==
    /\ (Len(hist) >= 1 /\ ~(Last.op = "PUSH" /\ Last.before.sp \in {0, 1})
                       /\ ~(Last.op = "POP" /\ Last.before.sp \in {65534, 65535})) =>
          StackOpAsClaimed(Len(hist), cpu)
    /\ (PushedTwicePoppedTwice /\ Ok(cpu)) =>
          /\ hist[3].ret = hist[2].value
          /\ hist[4].ret = hist[1].value
          /\ cpu.sp = hist[1].before.sp

----------------------------------------------------------------------------
(* Decoder and execute() together, in SpecStep.                            *)

\* the panics of execute() on an operand its instruction does not take
RejectionMessages ==
    {"Incompatible ArithmeticTarget for ADD", "Incompatible ArithmeticTarget for ADDHL",
     "Incompatible ArithmeticTarget for ADC", "Incompatible ArithmeticTarget for SUB",
     "Incompatible ArithmeticTarget for SBC", "Incompatible ArithmeticTarget for AND",
     "Incompatible ArithmeticTarget for OR", "Incompatible ArithmeticTarget for XOR",
     "Incompatible ArithmeticTarget for CP", "Incompatible ArithmeticTarget for INC",
     "Incompatible ArithmeticTarget for DEC", "Incompatible ArithmeticTarget for INC16",
     "Incompatible ArithmeticTarget for DEC16", "Incompatible ArithmeticTarget for BIT",
     "Incompatible ArithmeticTarget for RES", "Incompatible ArithmeticTarget for SET",
     "Invalid AddressIncDec inputs"}

\* C27: no step() ends in a panic of execute() about an operand the
\* instruction does not take: every instruction the decoder returns is one
\* execute() accepts.
C27_DecodedIsAccepted ==
    Did("step") => cpu.panic \notin RejectionMessages

\* opcode 0x03 at pc 0x0100 was decoded to INC16(BC) and executed
C27_Witness ==
    /\ Did("step")
    /\ Last.before.pc = 256
    /\ Load(Last.before.bus.memory, 256) = 3
    /\ Ok(cpu)
    /\ PairValue(cpu, "BC") = PairValue(Last.before, "BC") + 1
    /\ cpu.pc = 257

\* instruction is a jump, a word load, an HL auto-increment/decrement
\* load, an accumulator rotate or flag instruction, or an extended one
OutsideTheTable(instruction) ==
    \/ instruction.tag \in {"JP", "JR", "JPHL", "RLCA", "RRCA", "RLA", "RRA",
                            "CPL", "SCF", "CCF", "BIT", "RES", "SET"}
    \/ /\ instruction.tag = "LD"
       /\ instruction.arg.load_type \in {"Word", "AddressIncDec"}

\* C28: no byte decodes to a jump, a word load, an HL auto-increment or
\* auto-decrement load, an accumulator rotate or flag instruction or an
\* extended instruction, and every step() that completes leaves
\* pc = (p+1) mod 65536 or (p+2) mod 65536, p being the pc before it.
C28_StepNeverJumps ==
    /\ \A byte \in U8 :
          /\ from_byte(byte, FALSE).kind = "Some" =>
                ~OutsideTheTable(from_byte(byte, FALSE).instruction)
          /\ from_byte(byte, TRUE).kind # "Some"
    /\ (Did("step") /\ Ok(cpu)) =>
          cpu.pc \in {(Last.before.pc + 1) % 65536, (Last.before.pc + 2) % 65536}

\* opcode 0x06 (LD B, n8) at pc 0x0100 completed and left pc = 0x0102
C28_Witness ==
    /\ Did("step")
    /\ Last.before.pc = 256
    /\ Load(Last.before.bus.memory, 256) = 6
    /\ Ok(cpu)
    /\ cpu.pc = 258

----------------------------------------------------------------------------
(* Specification SpecBounds: one write_vram at every offset of VRAM and at *)
(* offsets past its end.                                                   *)

BoundsIndexes == 0 .. (VRAM_SIZE + 15) \cup {16384, 65535}
BoundsValues == {0, 255}

WriteAnywhere ==
    /\ hist = <<>>
    /\ \E index \in BoundsIndexes, value \in BoundsValues :
          /\ gpu' = write_vram(gpu, index, value)
          /\ hist' = <<[op |-> "write_vram", index |-> index, value |-> value,
                        before |-> gpu]>>
    /\ UNCHANGED cpu

NextBounds == WriteAnywhere

SpecBounds == InitGpu /\ [][NextBounds]_vars

\* C29: write_vram(n, value) faults exactly when n >= VRAM_SIZE; for
\* n < 0x1800 the partner byte at (n & 0xFFFE) + 1 is below VRAM_SIZE, the
\* tile index n/16 is at most 383 and the row index (n%16)/2 at most 7.
C29_WriteStaysInBounds ==
    Did("write_vram") =>
        LET n == Last.index
            even == n - (n % 2)
        IN  /\ Ok(gpu) <=> n < VRAM_SIZE
            /\ n < TILE_DATA_SIZE =>
                  /\ even + 1 < VRAM_SIZE
                  /\ even \div 16 <= TILE_COUNT - 1
                  /\ (even % 16) \div 2 <= 7
                  /\ <<even \div 16, (even % 16) \div 2>> \in DOMAIN gpu.tile_set
                        \/ Last.value = 0

\* the last byte of the tile data was written: the last row of the last
\* tile is decoded
C29_Witness ==
    /\ Did("write_vram")
    /\ Last.index = TILE_DATA_SIZE - 1
    /\ Last.value = 255
    /\ Ok(gpu)
    /\ TileRow(gpu.tile_set, TILE_COUNT - 1, 7) = [c \in 0..7 |-> "Two"]

----------------------------------------------------------------------------
(* The regular operand encoding of the blocks 0x40..0x7F and 0x80..0xBF,   *)
(* checked in SpecDecode.                                                  *)

\* operand field values 0..7: B, C, D, E, H, L, memory at HL, A
OperandField(field) ==
    <<"B", "C", "D", "E", "H", "L", "HL", "A">>[field + 1]

\* operation numbers 0..7 of the block 0x80..0xBF
OperationNumber(number) ==
    <<"ADD", "ADC", "SUB", "SBC", "AND", "XOR", "OR", "CP">>[number + 1]

\* C30: the standard table returns, for every byte in 0x40..0x7F except
\* 0x76, the byte LD with target field (byte>>3)&7 and source field byte&7,
\* and for every byte in 0x80..0xBF the operation (byte>>3)&7 of ADD, ADC,
\* SUB, SBC, AND, XOR, OR, CP on operand field byte&7; 0x76 has no entry.
C30_RegularOperandEncoding ==
    (Did("from_byte") /\ ~Last.prefixed) =>
        LET byte == Last.byte
            high == (byte \div 8) % 8
            low == byte % 8
        IN  /\ (byte \in 64..127 /\ byte # 118) =>
                  Last.ret = Some(Instr("LD", Byte(OperandField(high), OperandField(low))))
            /\ byte \in 128..191 =>
                  Last.ret = Some(Instr(OperationNumber(high), OperandField(low)))
            /\ byte = 118 => Last.ret.kind # "Some"

\* 0xAE was decoded: XOR with the byte at HL
C30_Witness ==
    /\ Did("from_byte")
    /\ ~Last.prefixed
    /\ Last.byte = 174
    /\ Last.ret = Some(Instr("XOR", "HL"))

\* 0x70 was decoded: LD (HL), B
C30_LoadDecoded ==
    /\ Did("from_byte")
    /\ ~Last.prefixed
    /\ Last.byte = 112
    /\ Last.ret = Some(Instr("LD", Byte("HL", "B")))

====
